---------------------------- MODULE Spec2Model ----------------------------
(***************************************************************************)
(* Release progress tracker: state derivation, snapshot matching,          *)
(* milestone cross-reference and per-cycle summaries.                      *)
(*                                                                         *)
(* Python strings that are searched (tags, branch names, draft names,      *)
(* dates, versions) are sequences of one-character strings; strings that   *)
(* are only compared for equality or tested for truthiness (release        *)
(* types, repository names, cycle labels, API names) are TLA+ strings.     *)
(* Python's None is NoneStr for the first kind and None for the second.    *)
(***************************************************************************)
EXTENDS Integers, Sequences, FiniteSets, TLC

VARIABLES
    pc,                   \* "call" before the function under study runs, "return" after
    target_release_type,  \* derive_state argument
    target_release_tag,   \* derive_state / find_matching_snapshot argument
    tag_exists,           \* derive_state argument
    snapshot_branches,    \* derive_state / find_matching_snapshot argument
    draft_releases,       \* derive_state argument
    state,                \* value returned by derive_state
    snapshot,             \* value returned by find_matching_snapshot
    repo_name,            \* derive_cycle_releases argument
    meta_release,         \* derive_cycle_releases argument
    all_releases,         \* derive_cycle_releases argument
    planned_apis,         \* derive_cycle_releases argument
    cycle_releases,       \* value returned by derive_cycle_releases
    progress_entries,     \* build_meta_release_summaries argument
    summaries,            \* value returned by build_meta_release_summaries
    entry,                \* generate_warnings argument
    repo_releases,        \* generate_warnings argument
    CHECKS,               \* the registry of check functions
    warnings,             \* the list generate_warnings accumulates and returns
    check_index,          \* position of generate_warnings in its loop over CHECKS
    invoked,              \* the checks generate_warnings has called, in call order
    master,               \* collect_all: the ledger loaded from releases-master.yaml
    remote,               \* what GitHub answers for each repository of the ledger
    repo_index,           \* position of collect_all in its loop over repositories
    entries,              \* collect_all: the entries collected so far
    stats,                \* collect_all: CollectionStats
    api_calls,            \* GitHubAPI.api_calls
    attempted,            \* the repositories collect_repo_progress was called for
    output,               \* the report written to output_path
    raised,               \* TRUE when the function under study raised an exception
    permuted_releases,    \* all_releases with same-dated candidates reordered
    permuted_cycle_releases, \* value returned by derive_cycle_releases for it
    permuted_entries,     \* progress_entries in another order
    permuted_summaries,   \* value returned by build_meta_release_summaries for it
    other_release_type,   \* a second target_release_type for the same artifacts
    other_state,          \* value returned by derive_state for it
    call_log              \* the remote calls collect_repo_progress has issued

stateVars == <<target_release_type, target_release_tag, tag_exists,
               snapshot_branches, draft_releases, state, snapshot>>
milestoneVars == <<repo_name, meta_release, all_releases, planned_apis, cycle_releases>>
summaryVars == <<progress_entries, summaries>>
warningVars == <<entry, repo_releases, CHECKS, warnings, check_index, invoked>>
collectVars == <<master, remote, repo_index, entries, stats, api_calls,
                 attempted, output>>
auxVars == <<raised, permuted_releases, permuted_cycle_releases>>
relVars == <<permuted_entries, permuted_summaries, other_release_type,
             other_state, call_log>>
extVars == <<warningVars, collectVars, auxVars, relVars>>
vars == <<pc, stateVars, milestoneVars, summaryVars, extVars>>

----------------------------------------------------------------------------
(* Bounds of the model *)

MaxBranches == 2
MaxDrafts == 2
MaxReleases == 3
MaxApis == 2
MaxEntries == 3

----------------------------------------------------------------------------
(* Python values *)

None == "None"
NoneStr == <<"None">>

\* bool(x) of an Optional[str] held as a TLA+ string
Truthy(x) == x # None /\ x # ""

\* bool(s) of an Optional[str] held as a character sequence
TruthyStr(s) == s # NoneStr /\ s # <<>>

\* str.startswith
StartsWith(s, p) == Len(p) <= Len(s) /\ SubSeq(s, 1, Len(p)) = p

\* the `in` operator on two str
Contains(s, sub) ==
    \E i \in 0..(Len(s) - Len(sub)) : SubSeq(s, i + 1, i + Len(sub)) = sub

\* `x or ""`
OrEmpty(s) == IF TruthyStr(s) THEN s ELSE <<>>

\* the code point of a character (ord)
CharOrd(c) ==
    CASE c = "-" -> 45 [] c = "." -> 46
      [] c = "0" -> 48 [] c = "1" -> 49 [] c = "2" -> 50 [] c = "3" -> 51
      [] c = "4" -> 52 [] c = "5" -> 53 [] c = "6" -> 54 [] c = "7" -> 55
      [] c = "8" -> 56 [] c = "9" -> 57
      [] c = "F" -> 70 [] c = "S" -> 83
      [] c = "a" -> 97 [] c = "c" -> 99 [] c = "l" -> 108 [] c = "n" -> 110
      [] c = "y" -> 121

\* a < b on two str: lexicographic by code point
RECURSIVE StrLess(_, _)
StrLess(a, b) ==
    IF b = <<>> THEN FALSE
    ELSE IF a = <<>> THEN TRUE
    ELSE IF Head(a) = Head(b) THEN StrLess(Tail(a), Tail(b))
    ELSE CharOrd(Head(a)) < CharOrd(Head(b))

\* All sequences over S of length at most n
SeqUpTo(S, n) == UNION { [1..k -> S] : k \in 0..n }

----------------------------------------------------------------------------
(* models.py: ProgressState *)

NOT_PLANNED == "not_planned"
PLANNED == "planned"
SNAPSHOT_ACTIVE == "snapshot_active"
DRAFT_READY == "draft_ready"
PUBLISHED == "published"
ProgressState == {NOT_PLANNED, PLANNED, SNAPSHOT_ACTIVE, DRAFT_READY, PUBLISHED}

----------------------------------------------------------------------------
(* state_deriver.py *)

SnapshotPrefix ==
    <<"r","e","l","e","a","s","e","-","s","n","a","p","s","h","o","t","/">>

\* Variant: the prefix lacks the '-' that ends the tag
snapshot_prefix_no_dash(target_tag) == SnapshotPrefix \o target_tag

\* prefix = f"release-snapshot/{target_tag}-"
snapshot_prefix(target_tag) == SnapshotPrefix \o target_tag \o <<"-">>

\* for branch in branches: if branch.startswith(prefix): return branch
RECURSIVE first_with_prefix(_, _, _)
first_with_prefix(branches, prefix, i) ==
    IF i > Len(branches) THEN NoneStr
    ELSE IF StartsWith(branches[i], prefix) THEN branches[i]
    ELSE first_with_prefix(branches, prefix, i + 1)

\* Variant: the scan keeps the last branch with the prefix, not the first
RECURSIVE last_with_prefix(_, _, _)
last_with_prefix(branches, prefix, i) ==
    IF i < 1 THEN NoneStr
    ELSE IF StartsWith(branches[i], prefix) THEN branches[i]
    ELSE last_with_prefix(branches, prefix, i - 1)

find_matching_snapshot_last(branches, target_tag) ==
    IF ~TruthyStr(target_tag) THEN NoneStr
    ELSE last_with_prefix(branches, snapshot_prefix(target_tag), Len(branches))

find_matching_snapshot(branches, target_tag) ==
    IF ~TruthyStr(target_tag) THEN NoneStr
    ELSE first_with_prefix(branches, snapshot_prefix(target_tag), 1)

\* for release in draft_releases: ... if target_tag in name or target_tag in tag
RECURSIVE any_draft_matches(_, _, _)
any_draft_matches(drafts, target_tag, i) ==
    IF i > Len(drafts) THEN FALSE
    ELSE LET name == OrEmpty(drafts[i].name)
             tag == OrEmpty(drafts[i].tag_name)
         IN  IF Contains(name, target_tag) \/ Contains(tag, target_tag)
             THEN TRUE
             ELSE any_draft_matches(drafts, target_tag, i + 1)

\* Variant: only the draft's name is searched, not its tag_name
RECURSIVE any_draft_name_matches(_, _, _)
any_draft_name_matches(drafts, target_tag, i) ==
    IF i > Len(drafts) THEN FALSE
    ELSE IF Contains(OrEmpty(drafts[i].name), target_tag) THEN TRUE
    ELSE any_draft_name_matches(drafts, target_tag, i + 1)

_has_matching_draft_name_only(drafts, target_tag) ==
    IF ~TruthyStr(target_tag) \/ drafts = <<>> THEN FALSE
    ELSE any_draft_name_matches(drafts, target_tag, 1)

_has_matching_draft(drafts, target_tag) ==
    IF ~TruthyStr(target_tag) \/ drafts = <<>> THEN FALSE
    ELSE any_draft_matches(drafts, target_tag, 1)

\* Variant: the tag check comes before the release-type check
derive_state_tag_first(release_type, target_tag, tagExists, branches, drafts) ==
    IF tagExists THEN PUBLISHED
    ELSE IF ~Truthy(release_type) \/ release_type = "none" THEN NOT_PLANNED
    ELSE IF TruthyStr(find_matching_snapshot(branches, target_tag))
         THEN IF _has_matching_draft(drafts, target_tag)
              THEN DRAFT_READY
              ELSE SNAPSHOT_ACTIVE
    ELSE PLANNED

\* Variant: the snapshot check comes before the tag check
derive_state_snapshot_first(release_type, target_tag, tagExists, branches, drafts) ==
    IF ~Truthy(release_type) \/ release_type = "none" THEN NOT_PLANNED
    ELSE IF TruthyStr(find_matching_snapshot(branches, target_tag))
         THEN IF _has_matching_draft(drafts, target_tag)
              THEN DRAFT_READY
              ELSE SNAPSHOT_ACTIVE
    ELSE IF tagExists THEN PUBLISHED
    ELSE PLANNED

\* Variant: a matching draft alone, without a snapshot, yields DRAFT_READY
derive_state_draft_alone(release_type, target_tag, tagExists, branches, drafts) ==
    IF ~Truthy(release_type) \/ release_type = "none" THEN NOT_PLANNED
    ELSE IF tagExists THEN PUBLISHED
    ELSE IF _has_matching_draft(drafts, target_tag) THEN DRAFT_READY
    ELSE IF TruthyStr(find_matching_snapshot(branches, target_tag))
         THEN SNAPSHOT_ACTIVE
    ELSE PLANNED

\* Variant: a public release with a matching snapshot needs no draft
derive_state_public_special(release_type, target_tag, tagExists, branches, drafts) ==
    IF ~Truthy(release_type) \/ release_type = "none" THEN NOT_PLANNED
    ELSE IF tagExists THEN PUBLISHED
    ELSE IF TruthyStr(find_matching_snapshot(branches, target_tag))
         THEN IF release_type = "public-release"
                 \/ _has_matching_draft(drafts, target_tag)
              THEN DRAFT_READY
              ELSE SNAPSHOT_ACTIVE
    ELSE PLANNED

derive_state(release_type, target_tag, tagExists, branches, drafts) ==
    IF ~Truthy(release_type) \/ release_type = "none" THEN NOT_PLANNED
    ELSE IF tagExists THEN PUBLISHED
    ELSE IF TruthyStr(find_matching_snapshot(branches, target_tag))
         THEN IF _has_matching_draft(drafts, target_tag)
              THEN DRAFT_READY
              ELSE SNAPSHOT_ACTIVE
    ELSE PLANNED

----------------------------------------------------------------------------
(* models.py: CycleReleaseApi, MilestoneRelease, CycleReleases *)

\* None where the value would be an object
NoneMilestone == [none |-> TRUE]

CycleReleaseApi(name, version) == [api_name |-> name, api_version |-> version]

MilestoneRelease(tag, date, apis) ==
    [release_tag |-> tag, release_date |-> date, apis |-> apis]

CycleReleases(m1, m3, m4) == [m1 |-> m1, m3 |-> m3, m4 |-> m4]

\* CycleReleases(): every milestone defaults to None
EmptyCycleReleases == CycleReleases(NoneMilestone, NoneMilestone, NoneMilestone)

----------------------------------------------------------------------------
(* milestone_deriver.py *)

\* Variant: an unachieved milestone lists no API
_empty_milestone_no_apis(planned) == MilestoneRelease(NoneStr, NoneStr, <<>>)

_empty_milestone(planned) ==
    MilestoneRelease(NoneStr, NoneStr,
        [i \in DOMAIN planned |-> CycleReleaseApi(planned[i], NoneStr)])

\* key=lambda r: r.get("release_date", ""); every record here has the key
sort_key(r) == r.release_date

\* Variant: the sort is not stable, r goes before the elements of equal key
RECURSIVE insert_before_equal(_, _)
insert_before_equal(sorted, r) ==
    IF sorted = <<>> THEN <<r>>
    ELSE IF ~StrLess(sort_key(Head(sorted)), sort_key(r)) THEN <<r>> \o sorted
    ELSE <<Head(sorted)>> \o insert_before_equal(Tail(sorted), r)

\* list.sort is stable: r goes after every element whose key is not greater
RECURSIVE insert_by_key(_, _)
insert_by_key(sorted, r) ==
    IF sorted = <<>> THEN <<r>>
    ELSE IF StrLess(sort_key(r), sort_key(Head(sorted))) THEN <<r>> \o sorted
    ELSE <<Head(sorted)>> \o insert_by_key(Tail(sorted), r)

RECURSIVE sort_by_date(_, _, _)
sort_by_date(matching, i, sorted) ==
    IF i > Len(matching) THEN sorted
    ELSE sort_by_date(matching, i + 1, insert_by_key(sorted, matching[i]))

\* Variant: the last release after the sort is taken, not the first
latest_of(matching) == sort_by_date(matching, 1, <<>>)[Len(matching)]

\* matching.sort(key=...); earliest = matching[0]
earliest_of(matching) == sort_by_date(matching, 1, <<>>)[1]

\* release_api_versions: for api in earliest.get("apis", []): if name: d[name] = version
RECURSIVE release_api_versions(_, _, _)
release_api_versions(apis, i, d) ==
    IF i > Len(apis) THEN d
    ELSE LET name == apis[i].api_name
             version == apis[i].api_version
         IN  IF Truthy(name)
             THEN release_api_versions(apis, i + 1,
                      [n \in DOMAIN d \cup {name} |->
                          IF n = name THEN version ELSE d[n]])
             ELSE release_api_versions(apis, i + 1, d)

\* dict.get(name)
DictGet(d, name) == IF name \in DOMAIN d THEN d[name] ELSE NoneStr

_find_earliest_by_type(cycle, release_type, planned) ==
    LET matching == SelectSeq(cycle, LAMBDA r : r.release_type = release_type)
    IN  IF matching = <<>> THEN _empty_milestone(planned)
        ELSE LET earliest == earliest_of(matching)
                 versions == release_api_versions(earliest.apis, 1, <<>>)
             IN  MilestoneRelease(
                     earliest.release_tag,
                     earliest.release_date,
                     [i \in DOMAIN planned |->
                         CycleReleaseApi(planned[i], DictGet(versions, planned[i]))])

\* Variant: a repository with no release in the cycle gets CycleReleases()
derive_cycle_releases_no_shape(repo, cycle_id, releases, planned) ==
    IF ~Truthy(cycle_id) THEN EmptyCycleReleases
    ELSE LET cycle == SelectSeq(releases,
                 LAMBDA r : r.repository = repo /\ r.meta_release = cycle_id)
         IN  IF cycle = <<>> THEN EmptyCycleReleases
             ELSE CycleReleases(
                      _find_earliest_by_type(cycle, "pre-release-alpha", planned),
                      _find_earliest_by_type(cycle, "pre-release-rc", planned),
                      _find_earliest_by_type(cycle, "public-release", planned))

derive_cycle_releases(repo, cycle_id, releases, planned) ==
    IF ~Truthy(cycle_id) THEN EmptyCycleReleases
    ELSE LET cycle == SelectSeq(releases,
                 LAMBDA r : r.repository = repo /\ r.meta_release = cycle_id)
         IN  IF cycle = <<>>
             THEN CycleReleases(_empty_milestone(planned),
                                _empty_milestone(planned),
                                _empty_milestone(planned))
             ELSE CycleReleases(
                      _find_earliest_by_type(cycle, "pre-release-alpha", planned),
                      _find_earliest_by_type(cycle, "pre-release-rc", planned),
                      _find_earliest_by_type(cycle, "public-release", planned))

\* Variant: every API entry of the milestone counts, versioned or not
achieved_count_all(m) == Len(m.apis)

\* len([a for a in cr.m1.apis if a.api_version])
achieved_count(m) ==
    Cardinality({ j \in DOMAIN m.apis : TruthyStr(m.apis[j].api_version) })

\* if cr.m1 and cr.m1.release_tag: s["m1_achieved"] += ...
achieved_add(m) ==
    IF m # NoneMilestone /\ TruthyStr(m.release_tag) THEN achieved_count(m) ELSE 0

\* Variant: the counters of a cycle are overwritten by each entry, not added to
RECURSIVE summarize_overwrite(_, _, _)
summarize_overwrite(es, i, acc) ==
    IF i > Len(es) THEN acc
    ELSE LET ent == es[i]
             mr == ent.meta_release
         IN  IF ~Truthy(mr) THEN summarize_overwrite(es, i + 1, acc)
             ELSE LET cr == ent.cycle_releases
                      t == [total_apis |-> Len(ent.apis),
                            m1_achieved |-> achieved_add(cr.m1),
                            m3_achieved |-> achieved_add(cr.m3),
                            m4_achieved |-> achieved_add(cr.m4)]
                  IN  summarize_overwrite(es, i + 1,
                          [c \in DOMAIN acc \cup {mr} |->
                              IF c = mr THEN t ELSE acc[c]])

RECURSIVE summarize(_, _, _)
summarize(es, i, acc) ==
    IF i > Len(es) THEN acc
    ELSE LET ent == es[i]
             mr == ent.meta_release
         IN  IF ~Truthy(mr) THEN summarize(es, i + 1, acc)
             ELSE LET s == IF mr \in DOMAIN acc THEN acc[mr]
                           ELSE [total_apis |-> 0, m1_achieved |-> 0,
                                 m3_achieved |-> 0, m4_achieved |-> 0]
                      cr == ent.cycle_releases
                      t == [total_apis |-> s.total_apis + Len(ent.apis),
                            m1_achieved |-> s.m1_achieved + achieved_add(cr.m1),
                            m3_achieved |-> s.m3_achieved + achieved_add(cr.m3),
                            m4_achieved |-> s.m4_achieved + achieved_add(cr.m4)]
                  IN  summarize(es, i + 1,
                          [c \in DOMAIN acc \cup {mr} |->
                              IF c = mr THEN t ELSE acc[c]])

build_meta_release_summaries(es) == summarize(es, 1, <<>>)

----------------------------------------------------------------------------
(* Inputs of the state deriver *)

T_r4 == <<"r","4">>
T_r42 == <<"r","4",".","2">>
T_r4x == <<"r","4","-","x">>
TargetTags == {NoneStr, <<>>, T_r4, T_r42, T_r4x}

\* the opaque suffixes of snapshot branch names
Suffixes == {<<"a">>, <<"x","-","a">>}

\* release-snapshot/{tag}-{suffix}
SnapshotOf(tag, suffix) == SnapshotPrefix \o tag \o <<"-">> \o suffix

BranchNames ==
    { SnapshotOf(T_r4, <<"a">>),          \* release-snapshot/r4-a
      SnapshotOf(T_r42, <<"a">>),         \* release-snapshot/r4.2-a
      SnapshotOf(T_r4x, <<"a">>),         \* release-snapshot/r4-x-a
      SnapshotOf(<<>>, <<"a">>),          \* release-snapshot/-a
      SnapshotPrefix \o T_r4,             \* release-snapshot/r4
      <<"m","a","i","n">> }

ReleaseTypes == {None, "", "none", "pre-release-rc", "public-release"}

DraftReleases ==
    { [name |-> <<"r","4",".","2"," ","r","c">>, tag_name |-> T_r42],
      [name |-> NoneStr, tag_name |-> T_r4x],
      [name |-> <<"r","3">>, tag_name |-> NoneStr],
      [name |-> NoneStr, tag_name |-> NoneStr] }

StateIdle ==
    /\ target_release_type = None
    /\ target_release_tag = NoneStr
    /\ tag_exists = FALSE
    /\ snapshot_branches = <<>>
    /\ draft_releases = <<>>
    /\ state = NOT_PLANNED
    /\ snapshot = NoneStr

MilestoneIdle ==
    /\ repo_name = ""
    /\ meta_release = None
    /\ all_releases = <<>>
    /\ planned_apis = <<>>
    /\ cycle_releases = EmptyCycleReleases

SummaryIdle ==
    /\ progress_entries = <<>>
    /\ summaries = <<>>

WarningsIdle ==
    /\ entry = NoneMilestone
    /\ repo_releases = <<>>
    /\ CHECKS = <<>>
    /\ warnings = <<>>
    /\ check_index = 0
    /\ invoked = <<>>

CollectIdle ==
    /\ master = NoneMilestone
    /\ remote = <<>>
    /\ repo_index = 0
    /\ entries = <<>>
    /\ stats = NoneMilestone
    /\ api_calls = 0
    /\ attempted = <<>>
    /\ output = NoneMilestone

AuxIdle ==
    /\ raised = FALSE
    /\ permuted_releases = <<>>
    /\ permuted_cycle_releases = EmptyCycleReleases

RelIdle ==
    /\ permuted_entries = <<>>
    /\ permuted_summaries = <<>>
    /\ other_release_type = None
    /\ other_state = NOT_PLANNED
    /\ call_log = <<>>

ExtIdle ==
    /\ WarningsIdle
    /\ CollectIdle
    /\ AuxIdle
    /\ RelIdle

----------------------------------------------------------------------------
(* Specification of find_matching_snapshot *)

InitSnapshot ==
    /\ pc = "call"
    /\ ExtIdle
    /\ target_release_type = None
    /\ target_release_tag \in TargetTags
    /\ tag_exists = FALSE
    /\ snapshot_branches \in SeqUpTo(BranchNames, MaxBranches)
    /\ draft_releases = <<>>
    /\ state = NOT_PLANNED
    /\ snapshot = NoneStr
    /\ MilestoneIdle
    /\ SummaryIdle

FindMatchingSnapshot ==
    /\ pc = "call"
    /\ snapshot' = find_matching_snapshot(snapshot_branches, target_release_tag)
    /\ pc' = "return"
    /\ UNCHANGED <<target_release_type, target_release_tag, tag_exists,
                   snapshot_branches, draft_releases, state>>
    /\ UNCHANGED <<milestoneVars, summaryVars>>
    /\ UNCHANGED extVars

NextSnapshot == FindMatchingSnapshot

SpecSnapshot == InitSnapshot /\ [][NextSnapshot]_vars

----------------------------------------------------------------------------
(* Specification of derive_state *)

StateBranchNames ==
    { SnapshotOf(T_r4, <<"a">>), SnapshotOf(T_r42, <<"a">>),
      SnapshotOf(T_r4x, <<"a">>), SnapshotPrefix \o T_r4 }

InitState ==
    /\ pc = "call"
    /\ ExtIdle
    /\ target_release_type \in ReleaseTypes
    /\ target_release_tag \in TargetTags
    /\ tag_exists \in BOOLEAN
    /\ snapshot_branches \in SeqUpTo(StateBranchNames, MaxBranches)
    /\ draft_releases \in SeqUpTo(DraftReleases, MaxDrafts)
    /\ state = NOT_PLANNED
    /\ snapshot = NoneStr
    /\ MilestoneIdle
    /\ SummaryIdle

DeriveState ==
    /\ pc = "call"
    /\ state' = derive_state(target_release_type, target_release_tag, tag_exists,
                             snapshot_branches, draft_releases)
    /\ pc' = "return"
    /\ UNCHANGED <<target_release_type, target_release_tag, tag_exists,
                   snapshot_branches, draft_releases, snapshot>>
    /\ UNCHANGED <<milestoneVars, summaryVars>>
    /\ UNCHANGED extVars

NextState == DeriveState

SpecState == InitState /\ [][NextState]_vars

----------------------------------------------------------------------------
(* Specification of derive_cycle_releases *)

Release(repo, cycle_id, type, tag, date, apis) ==
    [repository |-> repo, meta_release |-> cycle_id, release_type |-> type,
     release_tag |-> tag, release_date |-> date, apis |-> apis]

V1 == <<"1">>
V2 == <<"2">>

\* the ledger of releases: two alphas of RepoA in Sync26 share a date, a third
\* is dated "10" (before "2" as a string); other records belong to another
\* repository, another cycle or another release type
LedgerReleases ==
    { Release("RepoA", "Sync26", "pre-release-alpha", <<"r","1">>, <<"1","0">>,
              <<CycleReleaseApi("x", <<"1","-","a">>)>>),
      Release("RepoA", "Sync26", "pre-release-alpha", <<"r","2">>, <<"2">>,
              <<CycleReleaseApi("x", V1), CycleReleaseApi("y", V2)>>),
      Release("RepoA", "Sync26", "pre-release-alpha", <<"r","3">>, <<"2">>, <<>>),
      Release("RepoA", "Sync26", "pre-release-rc", <<"r","4">>, <<"2">>,
              <<CycleReleaseApi("y", NoneStr)>>),
      Release("RepoA", "Fall25", "public-release", <<"r","5">>, <<"1">>,
              <<CycleReleaseApi("x", V1)>>),
      Release("RepoB", "Sync26", "pre-release-alpha", <<"r","6">>, <<"1">>,
              <<CycleReleaseApi("x", V2)>>),
      Release("RepoA", "Sync26", "public-release", <<"r","7">>, <<"1","0">>,
              <<CycleReleaseApi("x", V2)>>) }

CycleIds == {None, "", "Sync26", "Fall25"}
ApiNames == {"x", "y"}

InitMilestone ==
    /\ pc = "call"
    /\ ExtIdle
    /\ StateIdle
    /\ repo_name = "RepoA"
    /\ meta_release \in CycleIds
    /\ all_releases \in SeqUpTo(LedgerReleases, MaxReleases)
    /\ planned_apis \in SeqUpTo(ApiNames, MaxApis)
    /\ cycle_releases = EmptyCycleReleases
    /\ SummaryIdle

DeriveCycleReleases ==
    /\ pc = "call"
    /\ cycle_releases' = derive_cycle_releases(repo_name, meta_release,
                                               all_releases, planned_apis)
    /\ pc' = "return"
    /\ UNCHANGED <<repo_name, meta_release, all_releases, planned_apis>>
    /\ UNCHANGED <<stateVars, summaryVars>>
    /\ UNCHANGED extVars

NextMilestone == DeriveCycleReleases

SpecMilestone == InitMilestone /\ [][NextMilestone]_vars

----------------------------------------------------------------------------
(* Specification of build_meta_release_summaries *)

\* ProgressEntry, as far as build_meta_release_summaries reads it
Entry(cycle_id, apis, cr) ==
    [meta_release |-> cycle_id, apis |-> apis, cycle_releases |-> cr]

Unachieved(names) ==
    MilestoneRelease(NoneStr, NoneStr,
        [i \in DOMAIN names |-> CycleReleaseApi(names[i], NoneStr)])

ProgressEntries ==
    { Entry("Sync26", <<"x", "y">>,
            CycleReleases(
                MilestoneRelease(<<"r","1">>, <<"1">>,
                    <<CycleReleaseApi("x", V1), CycleReleaseApi("y", NoneStr)>>),
                MilestoneRelease(<<"r","2">>, <<"2">>,
                    <<CycleReleaseApi("x", V1), CycleReleaseApi("y", V2)>>),
                Unachieved(<<"x", "y">>))),
      Entry("Sync26", <<"x">>, EmptyCycleReleases),
      Entry("Fall25", <<"x">>,
            CycleReleases(Unachieved(<<"x">>), Unachieved(<<"x">>),
                MilestoneRelease(<<"r","5">>, <<"1">>, <<CycleReleaseApi("x", V1)>>))),
      Entry("Fall25", <<>>,
            CycleReleases(Unachieved(<<>>), Unachieved(<<>>), Unachieved(<<>>))),
      Entry(None, <<"x">>, EmptyCycleReleases),
      Entry("", <<"x", "y">>, EmptyCycleReleases),
      Entry("Sync26", <<"x">>,
            CycleReleases(
                MilestoneRelease(<<>>, <<"1">>, <<CycleReleaseApi("x", V1)>>),
                MilestoneRelease(<<"r","3">>, <<"2">>, <<CycleReleaseApi("x", <<>>)>>),
                Unachieved(<<"x">>))) }

InitSummary ==
    /\ pc = "call"
    /\ ExtIdle
    /\ StateIdle
    /\ MilestoneIdle
    /\ progress_entries \in SeqUpTo(ProgressEntries, MaxEntries)
    /\ summaries = <<>>

BuildMetaReleaseSummaries ==
    /\ pc = "call"
    /\ summaries' = build_meta_release_summaries(progress_entries)
    /\ pc' = "return"
    /\ UNCHANGED progress_entries
    /\ UNCHANGED <<stateVars, milestoneVars>>
    /\ UNCHANGED extVars

NextSummary == BuildMetaReleaseSummaries

SpecSummary == InitSummary /\ [][NextSummary]_vars

----------------------------------------------------------------------------
(* Properties of derive_state and find_matching_snapshot *)

\* branch b carries the literal prefix release-snapshot/{t}- (t a string)
HasLiteralPrefix(b, t) == StartsWith(b, SnapshotPrefix \o t \o <<"-">>)

\* some branch of the input carries the literal prefix of the target tag
SomeBranchHasPrefix ==
    /\ target_release_tag # NoneStr
    /\ \E i \in DOMAIN snapshot_branches :
          HasLiteralPrefix(snapshot_branches[i], target_release_tag)

\* some draft's name or tag_name contains the target tag as a substring
SomeDraftContainsTag ==
    /\ target_release_tag # NoneStr
    /\ \E i \in DOMAIN draft_releases :
          \/ /\ draft_releases[i].name # NoneStr
             /\ Contains(draft_releases[i].name, target_release_tag)
          \/ /\ draft_releases[i].tag_name # NoneStr
             /\ Contains(draft_releases[i].tag_name, target_release_tag)

\* the release type the code treats as a plan: set, non-empty and not "none"
PlannedType == target_release_type \notin {None, "", "none"}

\* C1: derive_state returns NOT_PLANNED whenever release_type is null/absent
\* or "none", whatever the tag, tag_exists, the branches and the drafts are.
C1_NoneTypeNotPlanned ==
    (pc = "return" /\ target_release_type \in {None, "none"})
        => state = NOT_PLANNED

\* C1 witness: type "none" with an existing tag, a matching snapshot branch
\* and a matching draft, all at once.
C1_Witness ==
    /\ pc = "return"
    /\ target_release_type = "none"
    /\ tag_exists
    /\ SomeBranchHasPrefix
    /\ SomeDraftContainsTag
    /\ state = NOT_PLANNED

C3_DraftReadyIffDraft ==
    (/\ pc = "return"
     /\ PlannedType
     /\ ~tag_exists
     /\ find_matching_snapshot(snapshot_branches, target_release_tag) # NoneStr)
        => /\ (state = DRAFT_READY) <=> SomeDraftContainsTag
           /\ (state = SNAPSHOT_ACTIVE) <=> ~SomeDraftContainsTag

\* C3 witness: a snapshot matches and the only matching draft matches through
\* its tag_name (its name is null).
C3_Witness ==
    /\ pc = "return"
    /\ PlannedType
    /\ ~tag_exists
    /\ SomeBranchHasPrefix
    /\ state = DRAFT_READY
    /\ \A i \in DOMAIN draft_releases :
          draft_releases[i].name = NoneStr
            \/ ~Contains(draft_releases[i].name, target_release_tag)

FirstWithLiteralPrefix(t) ==
    LET hits == { i \in DOMAIN snapshot_branches :
                    HasLiteralPrefix(snapshot_branches[i], t) }
    IN  IF hits = {} THEN NoneStr
        ELSE snapshot_branches[CHOOSE i \in hits : \A j \in hits : i <= j]

\* C5 as stated: null for a null/absent target tag; for every other target
\* tag the first branch, in input order, that starts with
\* release-snapshot/{target_tag}-, and null if there is none.
C5_Original ==
    pc = "return" =>
        IF target_release_tag = NoneStr
        THEN snapshot = NoneStr
        ELSE snapshot = FirstWithLiteralPrefix(target_release_tag)

\* C5 amended: null for a null/absent or empty target tag; for every
\* non-empty target tag the first branch, in input order, that starts with
\* release-snapshot/{target_tag}-, and null if there is none.
C5_FirstMatch ==
    pc = "return" =>
        IF target_release_tag \in {NoneStr, <<>>}
        THEN snapshot = NoneStr
        ELSE snapshot = FirstWithLiteralPrefix(target_release_tag)

\* C5 witness: two different branches both carry the prefix and the first of
\* them is returned.
C5_Witness ==
    /\ pc = "return"
    /\ Len(snapshot_branches) = 2
    /\ snapshot_branches[1] # snapshot_branches[2]
    /\ TruthyStr(target_release_tag)
    /\ HasLiteralPrefix(snapshot_branches[1], target_release_tag)
    /\ HasLiteralPrefix(snapshot_branches[2], target_release_tag)
    /\ snapshot = snapshot_branches[1]

\* the tags other than the target tag
OtherTags == (TargetTags \ {NoneStr}) \ {target_release_tag}

\* a branch named release-snapshot/{t} with no '-' after the tag is not returned
NoDashNotReturned ==
    (/\ snapshot # NoneStr
     /\ target_release_tag # NoneStr
     /\ StartsWith(snapshot, SnapshotPrefix \o target_release_tag))
        => /\ Len(snapshot) > Len(SnapshotPrefix \o target_release_tag)
           /\ snapshot[Len(SnapshotPrefix \o target_release_tag) + 1] = "-"

\* C6 as stated: for all distinct tags t and u, the snapshot branch of u,
\* release-snapshot/{u}-{suffix}, and a branch release-snapshot/{t} without a
\* following '-' are never returned for target tag t.
C6_Original ==
    pc = "return" =>
        /\ \A u \in OtherTags : \A s \in Suffixes : snapshot # SnapshotOf(u, s)
        /\ NoDashNotReturned

\* C6 amended: for all distinct tags t and u such that neither tag followed
\* by '-' is a prefix of the other tag (so whenever the tags contain no '-'),
\* the snapshot branch of u and a branch release-snapshot/{t} without a
\* following '-' are never returned for target tag t, including when t is a
\* proper prefix of u.
C6_NoCollision ==
    pc = "return" =>
        /\ \A u \in OtherTags :
              (/\ ~StartsWith(u, target_release_tag \o <<"-">>)
               /\ ~StartsWith(target_release_tag, u \o <<"-">>))
                  => \A s \in Suffixes : snapshot # SnapshotOf(u, s)
        /\ NoDashNotReturned

\* C6 witness: the target r4 is a proper prefix of the tag r4.2, the input
\* holds the snapshot of r4.2 and the branch release-snapshot/r4, and nothing
\* is returned.
C6_Witness ==
    /\ pc = "return"
    /\ target_release_tag = T_r4
    /\ \E i \in DOMAIN snapshot_branches :
          snapshot_branches[i] = SnapshotOf(T_r42, <<"a">>)
    /\ \E i \in DOMAIN snapshot_branches :
          snapshot_branches[i] = SnapshotPrefix \o T_r4
    /\ snapshot = NoneStr

----------------------------------------------------------------------------
(* Properties of derive_cycle_releases *)

\* the release type that each milestone stands for
KindOf == [m1 |-> "pre-release-alpha", m3 |-> "pre-release-rc",
           m4 |-> "public-release"]
Milestones == {"m1", "m3", "m4"}

\* the positions in all_releases of the candidates of milestone f
Candidates(f) ==
    { i \in DOMAIN all_releases :
        /\ all_releases[i].repository = repo_name
        /\ all_releases[i].meta_release = meta_release
        /\ all_releases[i].release_type = KindOf[f] }

\* the candidate with the smallest date as a string, the earliest in input
\* order among equal dates
Chosen(f) ==
    CHOOSE i \in Candidates(f) : \A j \in Candidates(f) :
        \/ StrLess(all_releases[i].release_date, all_releases[j].release_date)
        \/ /\ all_releases[i].release_date = all_releases[j].release_date
           /\ i <= j

\* every milestone is there and is the earliest candidate of its kind
EarliestCandidateChosen ==
    \A f \in Milestones :
        LET m == cycle_releases[f]
        IN  /\ m # NoneMilestone
            /\ (m.release_tag = NoneStr /\ m.release_date = NoneStr)
                  <=> Candidates(f) = {}
            /\ Candidates(f) # {} =>
                  /\ m.release_tag = all_releases[Chosen(f)].release_tag
                  /\ m.release_date = all_releases[Chosen(f)].release_date

\* C7 as stated: for a non-null cycle_id each milestone carries the tag and
\* date of the candidate (same repository, same cycle, the milestone's
\* release type) with the smallest release_date under string comparison, the
\* earliest in input order among equal dates, and is unachieved if and only
\* if there is no candidate.
C7_Original ==
    (pc = "return" /\ meta_release # None) => EarliestCandidateChosen

\* C7 amended: the same for a cycle_id that is neither null nor the empty
\* string.
C7_EarliestCandidate ==
    (pc = "return" /\ Truthy(meta_release)) => EarliestCandidateChosen

\* C7 witness: two alphas of the repository in the cycle share the smallest
\* date and differ in tag, the ledger also holds a release of another
\* repository, and M1 carries the tag of the one that comes first.
C7_Witness ==
    /\ pc = "return"
    /\ Truthy(meta_release)
    /\ \E i \in DOMAIN all_releases : all_releases[i].repository # repo_name
    /\ \E i, j \in Candidates("m1") :
          /\ i < j
          /\ all_releases[i].release_date = all_releases[j].release_date
          /\ all_releases[i].release_tag # all_releases[j].release_tag
          /\ \A k \in Candidates("m1") :
                ~StrLess(all_releases[k].release_date, all_releases[i].release_date)
          /\ cycle_releases.m1.release_tag = all_releases[i].release_tag

\* the unachieved shape: null tag and date, every planned API with a null version
IsUnachieved(m) ==
    /\ m # NoneMilestone
    /\ m.release_tag = NoneStr
    /\ m.release_date = NoneStr
    /\ m.apis = [i \in DOMAIN planned_apis |->
                    [api_name |-> planned_apis[i], api_version |-> NoneStr]]

\* the repository has no release at all in the cycle
NoReleaseInCycle ==
    \A i \in DOMAIN all_releases :
        ~(/\ all_releases[i].repository = repo_name
          /\ all_releases[i].meta_release = meta_release)

\* all three milestones are there, unachieved when the cycle has no release
AllThreePresent ==
    /\ \A f \in Milestones : cycle_releases[f] # NoneMilestone
    /\ NoReleaseInCycle => \A f \in Milestones : IsUnachieved(cycle_releases[f])

\* C8 as stated: absent (no M1, M3, M4) when cycle_id is null/absent; for
\* every non-null cycle_id all three milestones present, each unachieved when
\* the repository has no release in the cycle.
C8_Original ==
    pc = "return" =>
        IF meta_release = None
        THEN \A f \in Milestones : cycle_releases[f] = NoneMilestone
        ELSE AllThreePresent

\* C8 amended: absent when cycle_id is null/absent or the empty string; for
\* every non-empty cycle_id all three milestones present, each unachieved
\* when the repository has no release in the cycle.
C8_AbsentOrAllThree ==
    pc = "return" =>
        IF ~Truthy(meta_release)
        THEN \A f \in Milestones : cycle_releases[f] = NoneMilestone
        ELSE AllThreePresent

\* C8 witness: the repository has releases, none of them in the cycle asked
\* for, and the three milestones come back unachieved over the planned APIs.
C8_Witness ==
    /\ pc = "return"
    /\ Truthy(meta_release)
    /\ planned_apis # <<>>
    /\ \E i \in DOMAIN all_releases : all_releases[i].repository = repo_name
    /\ NoReleaseInCycle
    /\ \A f \in Milestones : IsUnachieved(cycle_releases[f])

\* the version the chosen release of milestone f records for API name
RecordedVersion(f, name) ==
    IF Candidates(f) = {} THEN NoneStr
    ELSE LET apis == all_releases[Chosen(f)].apis
             hits == { j \in DOMAIN apis : apis[j].api_name = name }
         IN  IF hits = {} THEN NoneStr
             ELSE apis[CHOOSE j \in hits : TRUE].api_version

\* C9: every milestone returned for a non-null cycle_id has one api_versions
\* entry per element of planned_apis, in that order; its version is the one
\* the chosen release records for that API, and null when the milestone is
\* unachieved or the API is absent from the chosen release.
C9_OneEntryPerPlannedApi ==
    (pc = "return" /\ meta_release # None) =>
        \A f \in Milestones :
            LET m == cycle_releases[f]
            IN  m # NoneMilestone =>
                  /\ Len(m.apis) = Len(planned_apis)
                  /\ \A i \in DOMAIN planned_apis :
                        /\ m.apis[i].api_name = planned_apis[i]
                        /\ m.apis[i].api_version =
                              RecordedVersion(f, planned_apis[i])

\* C9 witness: M1 is achieved with one planned API versioned and the other
\* absent from the chosen release, while M4 is unachieved over both.
C9_Witness ==
    /\ pc = "return"
    /\ Len(planned_apis) = 2
    /\ cycle_releases.m1 # NoneMilestone
    /\ cycle_releases.m1.release_tag # NoneStr
    /\ \E i, j \in DOMAIN planned_apis :
          /\ cycle_releases.m1.apis[i].api_version # NoneStr
          /\ cycle_releases.m1.apis[j].api_version = NoneStr
    /\ IsUnachieved(cycle_releases.m4)

----------------------------------------------------------------------------
(* Properties of build_meta_release_summaries *)

\* the sum of the values of a function with a finite domain
RECURSIVE SumFn(_)
SumFn(f) ==
    IF DOMAIN f = {} THEN 0
    ELSE LET i == CHOOSE k \in DOMAIN f : TRUE
         IN  f[i] + SumFn([j \in DOMAIN f \ {i} |-> f[j]])

\* the positions of the entries of cycle c
EntriesOf(c) ==
    { i \in DOMAIN progress_entries : progress_entries[i].meta_release = c }

PlannedTotal(c) ==
    SumFn([i \in EntriesOf(c) |-> Len(progress_entries[i].apis)])

\* C10 as stated, for milestone f of cycle c: over the entries whose
\* milestone has a non-null release_tag, the number of non-null versions.
AchievedNonNull(c, f) ==
    LET tagged == { i \in EntriesOf(c) :
                      LET m == progress_entries[i].cycle_releases[f]
                      IN  m # NoneMilestone /\ m.release_tag # NoneStr }
    IN  SumFn([i \in tagged |->
            LET m == progress_entries[i].cycle_releases[f]
            IN  Cardinality({ j \in DOMAIN m.apis :
                                m.apis[j].api_version # NoneStr })])

\* the same with "non-null" read as "neither null nor empty"
AchievedNonEmpty(c, f) ==
    LET tagged == { i \in EntriesOf(c) :
                      LET m == progress_entries[i].cycle_releases[f]
                      IN  m # NoneMilestone /\ m.release_tag \notin {NoneStr, <<>>} }
    IN  SumFn([i \in tagged |->
            LET m == progress_entries[i].cycle_releases[f]
            IN  Cardinality({ j \in DOMAIN m.apis :
                                m.apis[j].api_version \notin {NoneStr, <<>>} })])

\* C10 as stated: one summary per distinct non-null cycle id and none for
\* entries without one; total_apis is the sum of the planned-API counts of
\* the cycle's entries; each achieved counter is the sum, over the entries
\* whose milestone has a non-null release_tag, of that milestone's non-null
\* versions.
C10_Original ==
    pc = "return" =>
        LET keys == { progress_entries[i].meta_release :
                        i \in DOMAIN progress_entries } \ {None}
        IN  /\ DOMAIN summaries = keys
            /\ \A c \in keys :
                  /\ summaries[c].total_apis = PlannedTotal(c)
                  /\ summaries[c].m1_achieved = AchievedNonNull(c, "m1")
                  /\ summaries[c].m3_achieved = AchievedNonNull(c, "m3")
                  /\ summaries[c].m4_achieved = AchievedNonNull(c, "m4")

\* C10 amended: one summary per distinct cycle id that is neither null nor
\* empty and none for the other entries; total_apis is the sum of the
\* planned-API counts of the cycle's entries; each achieved counter is the
\* sum, over the entries whose milestone has a release_tag that is neither
\* null nor empty, of that milestone's versions that are neither null nor
\* empty.
C10_SummaryCounts ==
    pc = "return" =>
        LET keys == { progress_entries[i].meta_release :
                        i \in DOMAIN progress_entries } \ {None, ""}
        IN  /\ DOMAIN summaries = keys
            /\ \A c \in keys :
                  /\ summaries[c].total_apis = PlannedTotal(c)
                  /\ summaries[c].m1_achieved = AchievedNonEmpty(c, "m1")
                  /\ summaries[c].m3_achieved = AchievedNonEmpty(c, "m3")
                  /\ summaries[c].m4_achieved = AchievedNonEmpty(c, "m4")

\* C10 witness: two entries share a cycle and a third has no cycle id; the
\* cycle's summary adds up both planned-API counts and counts fewer achieved
\* M1 versions than M1 entries.
C10_Witness ==
    /\ pc = "return"
    /\ \E i \in DOMAIN progress_entries : progress_entries[i].meta_release = None
    /\ \E c \in DOMAIN summaries :
          /\ Cardinality(EntriesOf(c)) = 2
          /\ summaries[c].total_apis = 3
          /\ summaries[c].m1_achieved = 1
          /\ Cardinality(DOMAIN summaries) = 1

----------------------------------------------------------------------------
(* The fixed text of the warning messages *)

\* "None"
NONE_WORD ==
    <<"N","o","n","e">>

\* "Plan targets "
PLAN_TARGETS ==
    <<"P","l","a","n"," ","t","a","r","g","e","t","s"," ">>

\* " but "
BUT ==
    <<" ","b","u","t"," ">>

\* " published "
PUBLISHED_WORD ==
    <<" ","p","u","b","l","i","s","h","e","d"," ">>

\* "Snapshot branch "
SNAPSHOT_BRANCH ==
    <<"S","n","a","p","s","h","o","t"," ","b","r","a","n","c","h"," ">>

\* " exists but release type is 'none'"
EXISTS_BUT ==
    <<" ","e","x","i","s","t","s"," ","b","u","t"," ","r","e","l","e","a","s","e"," ","t","y","p","e"," ","i","s"," ","'","n","o","n","e","'">>

\* "test warning"
TEST_WARNING ==
    <<"t","e","s","t"," ","w","a","r","n","i","n","g">>


----------------------------------------------------------------------------
(* models.py: the report's records *)

ApiEntry(name, version, status, contacts) ==
    [api_name |-> name, target_api_version |-> version,
     target_api_status |-> status, main_contacts |-> contacts]

ArtifactInfo(branch, pr, draft, issue) ==
    [snapshot_branch |-> branch, release_pr |-> pr,
     draft_release |-> draft, release_issue |-> issue]

PublishedContext(public, pre) ==
    [latest_public_release |-> public, newest_pre_release |-> pre]

ProgressWarning(code, message, severity) ==
    [code |-> code, message |-> message, severity |-> severity]

ProgressEntry(repo, url, track, cycle_id, tag, type, deps, apis, st, art, ctx, cr, ws) ==
    [repository |-> repo, github_url |-> url,
     release_track |-> track, meta_release |-> cycle_id,
     target_release_tag |-> tag, target_release_type |-> type,
     dependencies |-> deps, apis |-> apis, state |-> st, artifacts |-> art,
     published_context |-> ctx, cycle_releases |-> cr, warnings |-> ws]

----------------------------------------------------------------------------
(* warnings.py *)

\* f"{value}" of a searchable string: None is printed as the word None
Fmt(s) == IF s = NoneStr THEN NONE_WORD ELSE s

\* f"{api.api_name}": the API names of the model are one character long
FmtName(name) ==
    IF name = None THEN NONE_WORD ELSE IF name = "" THEN <<>> ELSE <<name>>

\* version.split("-")[0]
RECURSIVE split_first(_, _)
split_first(version, i) ==
    IF i > Len(version) \/ version[i] = "-" THEN SubSeq(version, 1, i - 1)
    ELSE split_first(version, i + 1)

\* Variant: the recorded version is compared whole
base_version_whole(version) == IF TruthyStr(version) THEN version ELSE <<>>

\* base_version = version.split("-")[0] if version else ""
base_version(version) ==
    IF TruthyStr(version) THEN split_first(version, 1) ELSE <<>>

\* for rel in repo_releases: if rel.get("release_tag") == tag: published = rel; break
RECURSIVE find_published(_, _, _)
find_published(releases, tag, i) ==
    IF i > Len(releases) THEN NoneMilestone
    ELSE IF releases[i].release_tag = tag THEN releases[i]
    ELSE find_published(releases, tag, i + 1)

\* for api in published.get("apis", []): if name: published_versions[name] = base_version
RECURSIVE published_versions(_, _, _)
published_versions(apis, i, d) ==
    IF i > Len(apis) THEN d
    ELSE LET name == apis[i].api_name
             base == base_version(apis[i].api_version)
         IN  IF Truthy(name)
             THEN published_versions(apis, i + 1,
                      [n \in DOMAIN d \cup {name} |->
                          IF n = name THEN base ELSE d[n]])
             ELSE published_versions(apis, i + 1, d)

W001_message(api, tag, published_base) ==
    PLAN_TARGETS \o FmtName(api.api_name) \o <<" ">>
        \o Fmt(api.target_api_version) \o BUT \o Fmt(tag)
        \o PUBLISHED_WORD \o published_base

\* Variant: every mismatching API gets its own warning
RECURSIVE all_mismatches(_, _, _, _)
all_mismatches(apis, versions, tag, i) ==
    IF i > Len(apis) THEN <<>>
    ELSE LET published_base == DictGet(versions, apis[i].api_name)
         IN  (IF TruthyStr(published_base)
                    /\ apis[i].target_api_version # published_base
              THEN <<ProgressWarning("W001",
                        W001_message(apis[i], tag, published_base), "warning")>>
              ELSE <<>>) \o all_mismatches(apis, versions, tag, i + 1)

\* for api in entry.apis: if published_base and target != published_base: return [W001]
RECURSIVE first_mismatch(_, _, _, _)
first_mismatch(apis, versions, tag, i) ==
    IF i > Len(apis) THEN <<>>
    ELSE LET published_base == DictGet(versions, apis[i].api_name)
         IN  IF TruthyStr(published_base)
                    /\ apis[i].target_api_version # published_base
             THEN <<ProgressWarning("W001",
                        W001_message(apis[i], tag, published_base), "warning")>>
             ELSE first_mismatch(apis, versions, tag, i + 1)

\* Variant: the divergence check fires in every state
_check_published_plan_diverged_any_state(e, releases) ==
    IF ~TruthyStr(e.target_release_tag) \/ e.apis = <<>> THEN <<>>
    ELSE LET published == find_published(releases, e.target_release_tag, 1)
         IN  IF published = NoneMilestone THEN <<>>
             ELSE first_mismatch(e.apis,
                      published_versions(published.apis, 1, <<>>),
                      e.target_release_tag, 1)

_check_published_plan_diverged(e, releases) ==
    IF e.state # PUBLISHED THEN <<>>
    ELSE IF ~TruthyStr(e.target_release_tag) \/ e.apis = <<>> THEN <<>>
    ELSE LET published == find_published(releases, e.target_release_tag, 1)
         IN  IF published = NoneMilestone THEN <<>>
             ELSE first_mismatch(e.apis,
                      published_versions(published.apis, 1, <<>>),
                      e.target_release_tag, 1)

W002_message(branch) == SNAPSHOT_BRANCH \o Fmt(branch) \o EXISTS_BUT

\* Variant: the orphan check fires in every state
_check_orphaned_snapshot_any_state(e, releases) ==
    IF TruthyStr(e.artifacts.snapshot_branch)
    THEN <<ProgressWarning("W002",
               W002_message(e.artifacts.snapshot_branch), "warning")>>
    ELSE <<>>

_check_orphaned_snapshot(e, releases) ==
    IF e.state # NOT_PLANNED THEN <<>>
    ELSE IF TruthyStr(e.artifacts.snapshot_branch)
    THEN <<ProgressWarning("W002",
               W002_message(e.artifacts.snapshot_branch), "warning")>>
    ELSE <<>>

\* a check appended to the registry: always one W999
_check_always_warn(e, releases) ==
    <<ProgressWarning("W999", TEST_WARNING, "info")>>

\* CHECKS as the module defines it
BuiltinChecks == <<"_check_published_plan_diverged", "_check_orphaned_snapshot">>

\* check_fn(entry, repo_releases)
check_fn(name, e, releases) ==
    CASE name = "_check_published_plan_diverged" ->
             _check_published_plan_diverged(e, releases)
      [] name = "_check_orphaned_snapshot" ->
             _check_orphaned_snapshot(e, releases)
      [] name = "_check_always_warn" ->
             _check_always_warn(e, releases)

\* Variant: the output of a check goes in front of the earlier outputs
extend_front(ws, out) == out \o ws

\* warnings.extend(...)
extend(ws, out) == ws \o out

----------------------------------------------------------------------------
(* Specification of generate_warnings *)

MaxWarnApis == 2
MaxWarnReleases == 2
MaxChecks == 3

ProgressStates == {NOT_PLANNED, PLANNED, SNAPSHOT_ACTIVE, DRAFT_READY, PUBLISHED}

T_r2 == <<"r","2">>
T_r3 == <<"r","3">>
WarnTags == {NoneStr, <<>>, T_r2, T_r3}

\* the plan's APIs: a version may agree with the published base or not
PlannedApiEntries ==
    { ApiEntry("x", V1, "rc", <<>>), ApiEntry("x", V2, "rc", <<>>),
      ApiEntry("y", V1, "rc", <<>>), ApiEntry("y", V2, "rc", <<>>) }

\* the repository's releases: r2 records x with a pre-release suffix, r3
\* records no version for y
WarnReleases ==
    { Release("RepoA", "Sync26", "pre-release-rc", T_r2, <<"1">>,
              <<CycleReleaseApi("x", <<"1","-","a">>), CycleReleaseApi("y", V2)>>),
      Release("RepoA", "Sync26", "public-release", T_r3, <<"2">>,
              <<CycleReleaseApi("x", V2), CycleReleaseApi("y", NoneStr)>>) }

WarnBranches == {NoneStr, SnapshotOf(T_r2, <<"a">>)}

WarnEntry(st, tag, apis, branch) ==
    ProgressEntry("RepoA", "github.com/camaraproject/RepoA",
        "meta-release", "Sync26", tag,
        IF st = NOT_PLANNED THEN "none" ELSE "pre-release-rc",
        NoneMilestone, apis, st,
        ArtifactInfo(branch, NoneMilestone, NoneMilestone, NoneMilestone),
        PublishedContext(NoneStr, NoneStr), EmptyCycleReleases, <<>>)

InitWarnings ==
    /\ pc = "call"
    /\ StateIdle
    /\ MilestoneIdle
    /\ SummaryIdle
    /\ CollectIdle
    /\ AuxIdle
    /\ RelIdle
    /\ \E st \in ProgressStates, tag \in WarnTags, branch \in WarnBranches,
          apis \in SeqUpTo(PlannedApiEntries, MaxWarnApis) :
          entry = WarnEntry(st, tag, apis, branch)
    /\ repo_releases \in SeqUpTo(WarnReleases, MaxWarnReleases)
    /\ CHECKS = BuiltinChecks
    /\ warnings = <<>>
    /\ check_index = 0
    /\ invoked = <<>>

\* CHECKS.append(_check_always_warn)
AppendCheck ==
    /\ pc = "call"
    /\ Len(CHECKS) < MaxChecks
    /\ CHECKS' = Append(CHECKS, "_check_always_warn")
    /\ UNCHANGED <<pc, entry, repo_releases, warnings, check_index, invoked>>
    /\ UNCHANGED <<stateVars, milestoneVars, summaryVars, collectVars, auxVars, relVars>>

\* warnings = []; the loop starts at the first check
EnterGenerateWarnings ==
    /\ pc = "call"
    /\ warnings' = <<>>
    /\ check_index' = 1
    /\ pc' = "loop"
    /\ UNCHANGED <<entry, repo_releases, CHECKS, invoked>>
    /\ UNCHANGED <<stateVars, milestoneVars, summaryVars, collectVars, auxVars, relVars>>

\* one iteration: warnings.extend(check_fn(entry, repo_releases))
InvokeCheck ==
    /\ pc = "loop"
    /\ check_index <= Len(CHECKS)
    /\ warnings' = extend(warnings, check_fn(CHECKS[check_index], entry, repo_releases))
    /\ invoked' = Append(invoked, CHECKS[check_index])
    /\ check_index' = check_index + 1
    /\ UNCHANGED <<pc, entry, repo_releases, CHECKS>>
    /\ UNCHANGED <<stateVars, milestoneVars, summaryVars, collectVars, auxVars, relVars>>

\* return warnings
ReturnWarnings ==
    /\ pc = "loop"
    /\ check_index > Len(CHECKS)
    /\ pc' = "return"
    /\ UNCHANGED <<entry, repo_releases, CHECKS, warnings, check_index, invoked>>
    /\ UNCHANGED <<stateVars, milestoneVars, summaryVars, collectVars, auxVars, relVars>>

NextWarnings ==
    \/ AppendCheck
    \/ EnterGenerateWarnings
    \/ InvokeCheck
    \/ ReturnWarnings

SpecWarnings == InitWarnings /\ [][NextWarnings]_vars

----------------------------------------------------------------------------
(* C11 - C14: the warning engine *)

HasCode(ws, code) == \E k \in DOMAIN ws : ws[k].code = code

\* the part of a version in front of its first hyphen
StripSuffix(v) ==
    CHOOSE p \in { SubSeq(v, 1, n) : n \in 0..Len(v) } :
        /\ \A k \in DOMAIN p : p[k] # "-"
        /\ (Len(p) = Len(v) \/ v[Len(p) + 1] = "-")

\* the releases of repo_releases that carry the entry's target tag
TaggedReleases ==
    { k \in DOMAIN repo_releases :
        repo_releases[k].release_tag = entry.target_release_tag }

\* planned API i mismatches release k: the release records a version for the
\* API whose stripped form is not the declared target version
Mismatch(i, k) ==
    \E j \in DOMAIN repo_releases[k].apis :
        LET rec == repo_releases[k].apis[j]
        IN  /\ rec.api_name = entry.apis[i].api_name
            /\ rec.api_version # NoneStr
            /\ StripSuffix(rec.api_version) # entry.apis[i].target_api_version

DivergenceCondition ==
    /\ entry.state = PUBLISHED
    /\ entry.target_release_tag # NoneStr
    /\ Len(entry.apis) >= 1
    /\ \E k \in TaggedReleases : \E i \in DOMAIN entry.apis : Mismatch(i, k)

W001s == { k \in DOMAIN warnings : warnings[k].code = "W001" }

\* the planned APIs that mismatch the release carrying the target tag
Mismatching == { i \in DOMAIN entry.apis : \E k \in TaggedReleases : Mismatch(i, k) }

\* the recorded version of planned API i, stripped of its suffix
PublishedBase(i) ==
    LET k == CHOOSE k \in TaggedReleases : Mismatch(i, k)
        j == CHOOSE j \in DOMAIN repo_releases[k].apis :
                 repo_releases[k].apis[j].api_name = entry.apis[i].api_name
    IN  StripSuffix(repo_releases[k].apis[j].api_version)

\* C12: at most one W001 is returned however many planned APIs mismatch; it
\* names the first mismatching API of the entry's list, and its message
\* contains that API's declared target version and the published base version.
C12_OneW001FirstMismatch ==
    pc = "return" =>
        /\ Cardinality(W001s) <= 1
        /\ \A k \in W001s :
              /\ Mismatching # {}
              /\ LET first == CHOOSE i \in Mismatching :
                                  \A i2 \in Mismatching : i <= i2
                     api == entry.apis[first]
                 IN  /\ Contains(warnings[k].message,
                            <<api.api_name, " ">> \o api.target_api_version)
                     /\ Contains(warnings[k].message, PublishedBase(first))

\* C12 witness: two planned APIs of different names both mismatch the
\* published release and one W001 is returned.
C12_Witness ==
    /\ pc = "return"
    /\ Cardinality(W001s) = 1
    /\ Cardinality(Mismatching) = 2
    /\ entry.apis[1].api_name # entry.apis[2].api_name
    /\ entry.apis[1].target_api_version # entry.apis[2].target_api_version

\* the W002 warnings of the returned list
W002s == { k \in DOMAIN warnings : warnings[k].code = "W002" }

\* C13: generate_warnings returns exactly one W002, whose message contains
\* the snapshot branch name, when the entry is NOT_PLANNED and its artifacts
\* carry a snapshot branch, and no W002 in any other state or without a
\* snapshot branch.
C13_W002Iff ==
    pc = "return" =>
        IF entry.state = NOT_PLANNED /\ entry.artifacts.snapshot_branch # NoneStr
        THEN /\ Cardinality(W002s) = 1
             /\ \A k \in W002s :
                   Contains(warnings[k].message, entry.artifacts.snapshot_branch)
        ELSE W002s = {}

\* C13 witness: a NOT_PLANNED entry with a snapshot branch got its W002, the
\* only warning of the built-in checks.
C13_Witness ==
    /\ pc = "return"
    /\ entry.state = NOT_PLANNED
    /\ entry.artifacts.snapshot_branch # NoneStr
    /\ CHECKS = BuiltinChecks
    /\ Len(warnings) = 1
    /\ warnings[1].code = "W002"

\* the outputs of the first n registered checks, one after the other
RECURSIVE OutputsUpTo(_)
OutputsUpTo(n) ==
    IF n = 0 THEN <<>>
    ELSE OutputsUpTo(n - 1) \o check_fn(CHECKS[n], entry, repo_releases)

\* C14: generate_warnings calls the checks of the registry one by one in
\* registration order and its list is at every moment the concatenation of
\* the outputs of the checks called so far; it returns only after the last
\* registered check, an appended one included, has been called.
C14_RegistryOrder ==
    pc \in {"loop", "return"} =>
        /\ Len(invoked) <= Len(CHECKS)
        /\ invoked = SubSeq(CHECKS, 1, Len(invoked))
        /\ warnings = OutputsUpTo(Len(invoked))
        /\ (pc = "return" => invoked = CHECKS)

\* C14 witness: a check was appended to the two built-in ones; one built-in
\* check returned nothing, the other one warning, and the appended check's
\* W999 comes last in the returned list.
C14_Witness ==
    /\ pc = "return"
    /\ Len(CHECKS) = 3
    /\ CHECKS[3] = "_check_always_warn"
    /\ Len(warnings) = 2
    /\ warnings[1].code \in {"W001", "W002"}
    /\ warnings[2].code = "W999"

----------------------------------------------------------------------------
(* models.py: to_dict.  A Python dict is a function on its keys. *)

\* the dict d cut down to the keys of S
Restrict(d, S) == [k \in S |-> d[k]]

\* truthiness of an Optional[Dict]
TruthyDict(d) == d # NoneMilestone /\ DOMAIN d # {}

ProgressWarning_to_dict(w) ==
    [code |-> w.code, message |-> w.message, severity |-> w.severity]

ApiEntry_to_dict(a) ==
    Restrict(a, {"api_name", "target_api_version", "target_api_status"}
                \cup (IF a.main_contacts # <<>> THEN {"main_contacts"} ELSE {}))

ArtifactInfo_to_dict(a) ==
    [snapshot_branch |-> a.snapshot_branch, release_pr |-> a.release_pr,
     draft_release |-> a.draft_release, release_issue |-> a.release_issue]

CycleReleaseApi_to_dict(a) ==
    [api_name |-> a.api_name, api_version |-> a.api_version]

MilestoneRelease_to_dict(m) ==
    [release_tag |-> m.release_tag, release_date |-> m.release_date,
     apis |-> [i \in DOMAIN m.apis |-> CycleReleaseApi_to_dict(m.apis[i])]]

\* Variant: the milestones that are None are written as null
CycleReleases_to_dict_explicit(cr) ==
    [k \in {"m1", "m3", "m4"} |->
        IF cr[k] = NoneMilestone THEN cr[k] ELSE MilestoneRelease_to_dict(cr[k])]

\* {} when no milestone is set, else the milestones that are set
CycleReleases_to_dict(cr) ==
    [k \in { k2 \in {"m1", "m3", "m4"} : cr[k2] # NoneMilestone } |->
        MilestoneRelease_to_dict(cr[k])]

PublishedContext_to_dict(c) ==
    [latest_public_release |-> c.latest_public_release,
     newest_pre_release |-> c.newest_pre_release]

\* every field of the entry in its serialized form
ProgressEntry_fields(e) ==
    [repository |-> e.repository,
     github_url |-> e.github_url,
     release_track |-> e.release_track,
     meta_release |-> e.meta_release,
     target_release_tag |-> e.target_release_tag,
     target_release_type |-> e.target_release_type,
     dependencies |-> e.dependencies,
     apis |-> [i \in DOMAIN e.apis |-> ApiEntry_to_dict(e.apis[i])],
     state |-> e.state,
     artifacts |-> ArtifactInfo_to_dict(e.artifacts),
     published_context |-> PublishedContext_to_dict(e.published_context),
     cycle_releases |-> CycleReleases_to_dict(e.cycle_releases),
     warnings |-> [i \in DOMAIN e.warnings |-> ProgressWarning_to_dict(e.warnings[i])]]

\* Variant: every key is always written
ProgressEntry_to_dict_all_keys(e) == ProgressEntry_fields(e)

\* release_track, meta_release, dependencies and warnings are written only
\* when truthy
ProgressEntry_to_dict(e) ==
    Restrict(ProgressEntry_fields(e),
        {"repository", "github_url", "target_release_tag", "target_release_type",
         "apis", "state", "artifacts", "published_context", "cycle_releases"}
        \cup (IF Truthy(e.release_track) THEN {"release_track"} ELSE {})
        \cup (IF Truthy(e.meta_release) THEN {"meta_release"} ELSE {})
        \cup (IF TruthyDict(e.dependencies) THEN {"dependencies"} ELSE {})
        \cup (IF e.warnings # <<>> THEN {"warnings"} ELSE {}))

MetaReleaseSummary_to_dict(m) ==
    [name |-> m.name, total_apis |-> m.total_apis, m1_achieved |-> m.m1_achieved,
     m3_achieved |-> m.m3_achieved, m4_achieved |-> m.m4_achieved]

\* duration_seconds is wall-clock time and is left out
CollectionStats_to_dict(s) ==
    [repos_scanned |-> s.repos_scanned, repos_with_plan |-> s.repos_with_plan,
     repos_planned |-> s.repos_planned, api_calls |-> s.api_calls]

\* last_updated is wall-clock time and is left out
ProgressData_to_dict(data) ==
    [metadata |-> [schema_version |-> data.schema_version,
                   collector_version |-> data.collector_version,
                   collection_stats |-> CollectionStats_to_dict(data.collection_stats)],
     meta_releases |-> [i \in DOMAIN data.meta_releases |->
                           MetaReleaseSummary_to_dict(data.meta_releases[i])],
     progress |-> [i \in DOMAIN data.progress |->
                      ProgressEntry_to_dict(data.progress[i])]]

----------------------------------------------------------------------------
(* warnings.py: generate_warnings as one call *)

RECURSIVE run_checks(_, _, _, _, _)
run_checks(checks, e, releases, i, ws) ==
    IF i > Len(checks) THEN ws
    ELSE run_checks(checks, e, releases, i + 1,
                    extend(ws, check_fn(checks[i], e, releases)))

generate_warnings(checks, e, releases) == run_checks(checks, e, releases, 1, <<>>)

----------------------------------------------------------------------------
(* github_api.py: the answers of GitHub for one repository.                *)
(* file is "missing" (404), "malformed" (not YAML) or "plan"; the call     *)
(* numbered fail_at, if the collection gets that far, raises               *)
(* RateLimitError (fail_kind "rate_limit") or fails in the session before  *)
(* it is counted (fail_kind "error").                                      *)

Plan(track, cycle_id, tag, type, deps, apis) ==
    [release_track |-> track, meta_release |-> cycle_id,
     target_release_tag |-> tag, target_release_type |-> type,
     dependencies |-> deps, apis |-> apis]

Remote(file, plan, tags, branches, releases, prs, issues) ==
    [file |-> file, plan |-> plan, tags |-> tags, branches |-> branches,
     releases |-> releases, prs |-> prs, issues |-> issues]

\* list_branches(repo, prefix): the names that start with the prefix
list_branches(r, prefix) ==
    SelectSeq(r.branches, LAMBDA b : prefix = <<>> \/ StartsWith(b, prefix))

\* tag_exists(repo, tag): the ref of the tag, None spelled out, answers 200
api_tag_exists(r, tag) == Fmt(tag) \in r.tags

\* get_draft_releases(repo): [r for r in resp.json() if r.get("draft")]
get_draft_releases(r) == SelectSeq(r.releases, LAMBDA x : x.draft)

\* find_release_issue(repo): the first open release issue
find_release_issue(r) ==
    IF r.issues = <<>> THEN NoneMilestone
    ELSE [number |-> r.issues[1].number, url |-> r.issues[1].html_url]

\* find_release_pr(repo, snapshot_branch): the first pull request into the branch
find_release_pr(r, branch) ==
    LET prs == SelectSeq(r.prs, LAMBDA p : p.base = branch)
    IN  IF prs = <<>> THEN NoneMilestone
        ELSE [number |-> prs[1].number, state |-> prs[1].state,
              url |-> prs[1].html_url]

----------------------------------------------------------------------------
(* collect_progress.py *)

\* build_published_context_map: the last ledger record of a name wins
RECURSIVE build_published_context_map(_, _, _)
build_published_context_map(repos, i, d) ==
    IF i > Len(repos) THEN d
    ELSE build_published_context_map(repos, i + 1,
             [n \in DOMAIN d \cup {repos[i].repository} |->
                 IF n = repos[i].repository
                 THEN PublishedContext(repos[i].latest_public_release,
                                       repos[i].newest_pre_release)
                 ELSE d[n]])

\* context_map.get(repo_name, PublishedContext(None, None))
context_of(context_map, name) ==
    IF name \in DOMAIN context_map THEN context_map[name]
    ELSE PublishedContext(NoneStr, NoneStr)

\* variant: the first draft is taken, whatever its name and tag
first_draft_any(drafts, tag, i) ==
    IF i > Len(drafts) THEN NoneMilestone
    ELSE [name |-> drafts[i].name, url |-> drafts[i].html_url]

\* for dr in draft_releases: if target_tag and (...): draft_release = {...}; break
RECURSIVE first_matching_draft(_, _, _)
first_matching_draft(drafts, tag, i) ==
    IF i > Len(drafts) THEN NoneMilestone
    ELSE IF TruthyStr(tag)
            /\ (Contains(OrEmpty(drafts[i].name), tag)
                \/ Contains(OrEmpty(drafts[i].tag_name), tag))
         THEN [name |-> drafts[i].name, url |-> drafts[i].html_url]
         ELSE first_matching_draft(drafts, tag, i + 1)

\* [r for r in all_releases if r.get("repository") == repo_name]
releases_of(releases, name) ==
    SelectSeq(releases, LAMBDA x : x.repository = name)

\* variant: any listed snapshot branch is taken as the left-over one
collect_not_planned_any_branch(name, url, plan, r, releases, ctx) ==
    LET tag == plan.target_release_tag
        branches == list_branches(r, SnapshotPrefix)
        found == IF branches # <<>> THEN branches[1] ELSE NoneStr
        e == ProgressEntry(name, url, plan.release_track, plan.meta_release,
                 tag, plan.target_release_type, plan.dependencies, plan.apis,
                 derive_state(plan.target_release_type, tag, FALSE, <<>>, <<>>),
                 ArtifactInfo(found, NoneMilestone, NoneMilestone, NoneMilestone),
                 ctx,
                 derive_cycle_releases(name, plan.meta_release, releases,
                     [i \in DOMAIN plan.apis |-> plan.apis[i].api_name]),
                 <<>>)
    IN  [e EXCEPT !.warnings =
            generate_warnings(BuiltinChecks, e, releases_of(releases, name))]

\* the branch for repositories whose release type is unset or "none"
collect_not_planned(name, url, plan, r, releases, ctx) ==
    LET tag == plan.target_release_tag
        branches == list_branches(r, SnapshotPrefix)
        found == IF branches # <<>> THEN find_matching_snapshot(branches, tag)
                 ELSE NoneStr
        e == ProgressEntry(name, url, plan.release_track, plan.meta_release,
                 tag, plan.target_release_type, plan.dependencies, plan.apis,
                 derive_state(plan.target_release_type, tag, FALSE, <<>>, <<>>),
                 ArtifactInfo(IF TruthyStr(found) THEN found ELSE NoneStr,
                              NoneMilestone, NoneMilestone, NoneMilestone),
                 ctx,
                 derive_cycle_releases(name, plan.meta_release, releases,
                     [i \in DOMAIN plan.apis |-> plan.apis[i].api_name]),
                 <<>>)
    IN  [e EXCEPT !.warnings =
            generate_warnings(BuiltinChecks, e, releases_of(releases, name))]

\* the branch for repositories with a planned release
collect_active(name, url, plan, r, releases, ctx) ==
    LET tag == plan.target_release_tag
        tagged == api_tag_exists(r, tag)
        branches == list_branches(r, SnapshotPrefix)
        drafts == get_draft_releases(r)
        found == find_matching_snapshot(branches, tag)
        pr == IF TruthyStr(found) THEN find_release_pr(r, found) ELSE NoneMilestone
        e == ProgressEntry(name, url, plan.release_track, plan.meta_release,
                 tag, plan.target_release_type, plan.dependencies, plan.apis,
                 derive_state(plan.target_release_type, tag, tagged, branches, drafts),
                 ArtifactInfo(IF TruthyStr(found) THEN found ELSE NoneStr,
                              pr,
                              first_matching_draft(drafts, tag, 1),
                              find_release_issue(r)),
                 ctx,
                 derive_cycle_releases(name, plan.meta_release, releases,
                     [i \in DOMAIN plan.apis |-> plan.apis[i].api_name]),
                 <<>>)
    IN  [e EXCEPT !.warnings =
            generate_warnings(BuiltinChecks, e, releases_of(releases, name))]

\* if not target_type or target_type == "none"
is_not_planned(plan) ==
    ~Truthy(plan.target_release_type) \/ plan.target_release_type = "none"

\* Variant: the tag is looked up for every repository that has a plan
calls_made_tag_always(r) ==
    IF r.file # "plan" THEN <<"get_file_content">>
    ELSE IF is_not_planned(r.plan)
    THEN <<"get_file_content", "tag_exists", "list_branches">>
    ELSE <<"get_file_content", "tag_exists", "list_branches", "get_draft_releases">>
         \o (IF TruthyStr(find_matching_snapshot(list_branches(r, SnapshotPrefix),
                                                 r.plan.target_release_tag))
             THEN <<"find_release_pr">> ELSE <<>>)
         \o <<"find_release_issue">>

\* the operations of the client that collect_repo_progress calls, in call
\* order, when none of them fails
calls_made(r) ==
    IF r.file # "plan" THEN <<"get_file_content">>
    ELSE IF is_not_planned(r.plan)
    THEN <<"get_file_content", "list_branches">>
    ELSE <<"get_file_content", "tag_exists", "list_branches", "get_draft_releases">>
         \o (IF TruthyStr(find_matching_snapshot(list_branches(r, SnapshotPrefix),
                                                 r.plan.target_release_tag))
             THEN <<"find_release_pr">> ELSE <<>>)
         \o <<"find_release_issue">>

\* the remote calls collect_repo_progress makes when none of them fails
calls_needed(r) ==
    IF r.file # "plan" THEN 1
    ELSE IF is_not_planned(r.plan) THEN 2
    ELSE IF TruthyStr(find_matching_snapshot(list_branches(r, SnapshotPrefix),
                                             r.plan.target_release_tag))
         THEN 6
         ELSE 5

\* Variant: a rate limit met for a repository counts as a failure of that
\* repository only
collect_repo_progress_no_abort(name, url, r, fail_at, fail_kind, releases, ctx) ==
    IF fail_at \in 1..calls_needed(r)
    THEN [outcome |-> "error", entry |-> NoneMilestone, calls |-> fail_at - 1]
    ELSE IF r.file # "plan"
    THEN [outcome |-> "none", entry |-> NoneMilestone, calls |-> 1]
    ELSE [outcome |-> "entry",
          entry |-> IF is_not_planned(r.plan)
                    THEN collect_not_planned(name, url, r.plan, r, releases, ctx)
                    ELSE collect_active(name, url, r.plan, r, releases, ctx),
          calls |-> calls_needed(r)]

\* Variant: a repository without a usable plan gets an entry with defaults
collect_repo_progress_default_plan(name, url, r, fail_at, fail_kind, releases, ctx) ==
    IF fail_at \in 1..calls_needed(r)
    THEN [outcome |-> fail_kind, entry |-> NoneMilestone,
          calls |-> IF fail_kind = "rate_limit" THEN fail_at ELSE fail_at - 1]
    ELSE [outcome |-> "entry",
          entry |-> IF is_not_planned(r.plan)
                    THEN collect_not_planned(name, url, r.plan, r, releases, ctx)
                    ELSE collect_active(name, url, r.plan, r, releases, ctx),
          calls |-> calls_needed(r)]

\* collect_repo_progress: an entry, None, or the exception a remote call raised;
\* calls is what the run adds to api.api_calls
collect_repo_progress(name, url, r, fail_at, fail_kind, releases, ctx) ==
    IF fail_at \in 1..calls_needed(r)
    THEN [outcome |-> fail_kind, entry |-> NoneMilestone,
          calls |-> IF fail_kind = "rate_limit" THEN fail_at ELSE fail_at - 1]
    ELSE IF r.file # "plan"
    THEN [outcome |-> "none", entry |-> NoneMilestone, calls |-> 1]
    ELSE [outcome |-> "entry",
          entry |-> IF is_not_planned(r.plan)
                    THEN collect_not_planned(name, url, r.plan, r, releases, ctx)
                    ELSE collect_active(name, url, r.plan, r, releases, ctx),
          calls |-> calls_needed(r)]

\* the characters of a cycle label
NameChars(c) ==
    CASE c = "Sync26" -> <<"S","y","n","c","2","6">>
      [] c = "Fall25" -> <<"F","a","l","l","2","5">>

\* variant: the labels in decreasing order
RECURSIVE sorted_names_reverse(_)
sorted_names_reverse(S) ==
    IF S = {} THEN <<>>
    ELSE LET greatest == CHOOSE c \in S :
                             \A c2 \in S \ {c} : StrLess(NameChars(c2), NameChars(c))
         IN  <<greatest>> \o sorted_names_reverse(S \ {greatest})

\* sorted(summary_data.items()): the labels in increasing order
RECURSIVE sorted_names(_)
sorted_names(S) ==
    IF S = {} THEN <<>>
    ELSE LET least == CHOOSE c \in S :
                          \A c2 \in S \ {c} : StrLess(NameChars(c), NameChars(c2))
         IN  <<least>> \o sorted_names(S \ {least})

\* meta_summaries = [MetaReleaseSummary(name=name, **counts) for ...]
meta_summaries(summary_data) ==
    LET names == sorted_names(DOMAIN summary_data)
    IN  [i \in DOMAIN names |->
            [name |-> names[i],
             total_apis |-> summary_data[names[i]].total_apis,
             m1_achieved |-> summary_data[names[i]].m1_achieved,
             m3_achieved |-> summary_data[names[i]].m3_achieved,
             m4_achieved |-> summary_data[names[i]].m4_achieved]]

\* ProgressData(...)
ProgressData(collection_stats, summary_list, progress) ==
    [schema_version |-> "1.0.0", collector_version |-> "1.0.0",
     collection_stats |-> collection_stats,
     meta_releases |-> summary_list, progress |-> progress]

----------------------------------------------------------------------------
(* Specification of collect_all *)

MaxRepos == 3

LedgerRepo(name, url, public, pre) ==
    [repository |-> name, github_url |-> url,
     latest_public_release |-> public, newest_pre_release |-> pre]

\* the repositories of the ledger, in ledger order
LedgerRepos ==
    << LedgerRepo("RepoA", "github.com/camaraproject/RepoA", T_r3, T_r2),
       LedgerRepo("RepoB", "github.com/camaraproject/RepoB", NoneStr, NoneStr),
       LedgerRepo("RepoC", "github.com/camaraproject/RepoC", NoneStr, T_r2),
       LedgerRepo("RepoD", "github.com/camaraproject/RepoD", NoneStr, NoneStr),
       LedgerRepo("RepoE", "github.com/camaraproject/RepoE", NoneStr, NoneStr) >>

\* the releases of the ledger: RepoA published r2 and r3 in Sync26
MasterReleases ==
    << Release("RepoA", "Sync26", "pre-release-rc", T_r2, <<"1">>,
               <<CycleReleaseApi("x", <<"1","-","a">>), CycleReleaseApi("y", V2)>>),
       Release("RepoA", "Sync26", "public-release", T_r3, <<"2">>,
               <<CycleReleaseApi("x", V2), CycleReleaseApi("y", NoneStr)>>) >>

NoPlan == Plan(None, None, NoneStr, None, NoneMilestone, <<>>)

Main == <<"m","a","i","n">>

\* what GitHub holds for a repository: no plan, a plan that is not YAML, a
\* plan whose fields are unset (null, the cycle id an empty string), a plan
\* without a release but with a
\* left-over snapshot, a plan whose tag is
\* published, and the plan of an independent repository with a snapshot, a
\* draft, a pull request and a release issue
RemoteAnswers ==
    { Remote("missing", NoPlan, {}, <<Main>>, <<>>, <<>>, <<>>),
      Remote("malformed", NoPlan, {}, <<Main>>, <<>>, <<>>, <<>>),
      Remote("plan", Plan(None, "", NoneStr, None, NoneMilestone, <<>>),
             {}, <<Main>>, <<>>, <<>>, <<>>),
      Remote("plan",
             Plan("meta-release", "Fall25", T_r2, "none", NoneMilestone, <<>>),
             {}, <<Main, SnapshotOf(T_r2, <<"a">>)>>, <<>>, <<>>, <<>>),
      Remote("plan",
             Plan("meta-release", "Sync26", T_r2, "pre-release-rc",
                  [commonalities_release |-> T_r42],
                  <<ApiEntry("x", V2, "rc", <<"u">>)>>),
             {T_r2}, <<Main>>, <<>>, <<>>, <<>>),
      Remote("plan",
             Plan("independent", None, T_r3, "public-release", NoneMilestone,
                  <<ApiEntry("y", V1, "public", <<>>)>>),
             {}, <<SnapshotOf(T_r3, <<"a">>)>>,
             <<[name |-> NoneStr, tag_name |-> T_r2, html_url |-> "u1", draft |-> FALSE],
               [name |-> NoneStr, tag_name |-> T_r3, html_url |-> "u2", draft |-> TRUE]>>,
             <<[base |-> SnapshotOf(T_r3, <<"a">>), number |-> 42,
                state |-> "open", html_url |-> "u3"]>>,
             <<[number |-> 7, html_url |-> "u4"]>>) }

\* the remote call that fails, if any: its number among the calls made for
\* the repository and what it raises; the failing call is the one that
\* follows the reading of the plan
Failures ==
    { [fail_at |-> 0, fail_kind |-> "none"],
      [fail_at |-> 2, fail_kind |-> "rate_limit"],
      [fail_at |-> 2, fail_kind |-> "error"] }

RemoteRepos ==
    { [repo |-> r, fail_at |-> f.fail_at, fail_kind |-> f.fail_kind] :
        r \in RemoteAnswers, f \in Failures }

InitCollect ==
    /\ pc = "call"
    /\ StateIdle
    /\ MilestoneIdle
    /\ SummaryIdle
    /\ WarningsIdle
    /\ AuxIdle
    /\ RelIdle
    /\ \E n \in 0..MaxRepos :
          /\ master = [repositories |-> SubSeq(LedgerRepos, 1, n),
                       releases |-> MasterReleases]
          /\ remote \in [1..n -> RemoteRepos]
          /\ \A i \in 1..n : remote[i].fail_at <= calls_needed(remote[i].repo)
    /\ repo_index = 0
    /\ entries = <<>>
    /\ stats = NoneMilestone
    /\ api_calls = 0
    /\ attempted = <<>>
    /\ output = NoneMilestone

\* the result of collect_repo_progress for repository j of the ledger
ResultOf(j) ==
    LET repo_data == master.repositories[j]
    IN  collect_repo_progress(repo_data.repository, repo_data.github_url,
            remote[j].repo, remote[j].fail_at, remote[j].fail_kind,
            master.releases,
            context_of(build_published_context_map(master.repositories, 1, <<>>),
                       repo_data.repository))

\* the result for the repository the loop is at
CurrentResult == ResultOf(repo_index)

\* where the loop goes after the current repository
AfterCurrent ==
    IF repo_index + 1 > Len(master.repositories) THEN "build" ELSE "loop"

\* collect_all up to its loop: stats and entries are set up
StartCollectAll ==
    /\ pc = "call"
    /\ stats' = [repos_scanned |-> Len(master.repositories),
                 repos_with_plan |-> 0, repos_planned |-> 0, api_calls |-> 0]
    /\ entries' = <<>>
    /\ repo_index' = 1
    /\ pc' = IF master.repositories = <<>> THEN "build" ELSE "loop"
    /\ UNCHANGED <<master, remote, api_calls, attempted, output>>
    /\ UNCHANGED <<stateVars, milestoneVars, summaryVars, warningVars, auxVars, relVars>>

\* variant: every entry is counted as planned
CollectRepoEntry_all_planned ==
    /\ pc = "loop"
    /\ CurrentResult.outcome = "entry"
    /\ entries' = Append(entries, CurrentResult.entry)
    /\ stats' = [stats EXCEPT !.repos_with_plan = @ + 1, !.repos_planned = @ + 1]
    /\ api_calls' = api_calls + CurrentResult.calls
    /\ attempted' = Append(attempted, master.repositories[repo_index].repository)
    /\ repo_index' = repo_index + 1
    /\ pc' = AfterCurrent
    /\ UNCHANGED <<master, remote, output>>
    /\ UNCHANGED <<stateVars, milestoneVars, summaryVars, warningVars, auxVars, relVars>>

\* one iteration: collect_repo_progress returned an entry
CollectRepoEntry ==
    /\ pc = "loop"
    /\ CurrentResult.outcome = "entry"
    /\ entries' = Append(entries, CurrentResult.entry)
    /\ stats' = [stats EXCEPT
                   !.repos_with_plan = @ + 1,
                   !.repos_planned =
                       IF CurrentResult.entry.state # "not_planned" THEN @ + 1 ELSE @]
    /\ api_calls' = api_calls + CurrentResult.calls
    /\ attempted' = Append(attempted, master.repositories[repo_index].repository)
    /\ repo_index' = repo_index + 1
    /\ pc' = AfterCurrent
    /\ UNCHANGED <<master, remote, output>>
    /\ UNCHANGED <<stateVars, milestoneVars, summaryVars, warningVars, auxVars, relVars>>

\* one iteration: collect_repo_progress returned None
CollectRepoNone ==
    /\ pc = "loop"
    /\ CurrentResult.outcome = "none"
    /\ api_calls' = api_calls + CurrentResult.calls
    /\ attempted' = Append(attempted, master.repositories[repo_index].repository)
    /\ repo_index' = repo_index + 1
    /\ pc' = AfterCurrent
    /\ UNCHANGED <<master, remote, entries, stats, output>>
    /\ UNCHANGED <<stateVars, milestoneVars, summaryVars, warningVars, auxVars, relVars>>

\* one iteration: except Exception: continue
CollectRepoError ==
    /\ pc = "loop"
    /\ CurrentResult.outcome = "error"
    /\ api_calls' = api_calls + CurrentResult.calls
    /\ attempted' = Append(attempted, master.repositories[repo_index].repository)
    /\ repo_index' = repo_index + 1
    /\ pc' = AfterCurrent
    /\ UNCHANGED <<master, remote, entries, stats, output>>
    /\ UNCHANGED <<stateVars, milestoneVars, summaryVars, warningVars, auxVars, relVars>>

\* one iteration: except RateLimitError: break
CollectRepoRateLimit ==
    /\ pc = "loop"
    /\ CurrentResult.outcome = "rate_limit"
    /\ api_calls' = api_calls + CurrentResult.calls
    /\ attempted' = Append(attempted, master.repositories[repo_index].repository)
    /\ pc' = "build"
    /\ UNCHANGED <<master, remote, repo_index, entries, stats, output>>
    /\ UNCHANGED <<stateVars, milestoneVars, summaryVars, warningVars, auxVars, relVars>>

\* after the loop: the summaries are built and the report is written
WriteReport ==
    /\ pc = "build"
    /\ stats' = [stats EXCEPT !.api_calls = api_calls]
    /\ output' = ProgressData_to_dict(
                     ProgressData([stats EXCEPT !.api_calls = api_calls],
                         meta_summaries(build_meta_release_summaries(entries)),
                         entries))
    /\ pc' = "return"
    /\ UNCHANGED <<master, remote, repo_index, entries, api_calls, attempted>>
    /\ UNCHANGED <<stateVars, milestoneVars, summaryVars, warningVars, auxVars, relVars>>

NextCollect ==
    \/ StartCollectAll
    \/ CollectRepoEntry
    \/ CollectRepoNone
    \/ CollectRepoError
    \/ CollectRepoRateLimit
    \/ WriteReport

SpecCollect == InitCollect /\ [][NextCollect]_vars

----------------------------------------------------------------------------
(* C15, C16: collect_all and the failures of the remote client *)

\* the collection of repository i meets the exhausted rate limit
RateLimited(i) == remote[i].fail_at >= 1 /\ remote[i].fail_kind = "rate_limit"

\* the collection of repository i fails with another error
Failed(i) == remote[i].fail_at >= 1 /\ remote[i].fail_kind = "error"

\* repository i has no plan that can be read
NoUsablePlan(i) == remote[i].repo.file \in {"missing", "malformed"}

\* the entries of the repositories 1..k that yield one, in ledger order
RECURSIVE EntriesUpTo(_)
EntriesUpTo(k) ==
    IF k = 0 THEN <<>>
    ELSE IF ~RateLimited(k) /\ ~Failed(k) /\ ~NoUsablePlan(k)
         THEN Append(EntriesUpTo(k - 1), ResultOf(k).entry)
         ELSE EntriesUpTo(k - 1)

\* the report holds the serialized form of the listed entries, in order
ReportHolds(es) ==
    /\ output # NoneMilestone
    /\ output.progress = [j \in DOMAIN es |-> ProgressEntry_to_dict(es[j])]

\* C15: once the collection of repository i has met the exhausted rate limit,
\* no repository after i is collected, the entries are those produced for
\* the repositories before i, and the report is still built and written
\* with exactly those entries.
C15_RateLimitAborts ==
    /\ [](\A i \in DOMAIN attempted :
             RateLimited(i) =>
                 /\ Len(attempted) = i
                 /\ pc \in {"build", "return"}
                 /\ entries = EntriesUpTo(i - 1)
                 /\ (pc = "return" => ReportHolds(EntriesUpTo(i - 1))))
    /\ [][pc = "build" => pc' = "return" /\ entries' = entries
                              /\ output' # NoneMilestone]_vars

\* C15 witness: the rate limit is met at the second of three repositories;
\* the report is written with the entry of the first one.
C15_Witness ==
    /\ pc = "return"
    /\ Len(master.repositories) = 3
    /\ Len(attempted) = 2
    /\ RateLimited(2)
    /\ Len(entries) = 1
    /\ Len(output.progress) = 1
    /\ output.progress[1].repository = "RepoA"

\* repository i is skipped: its plan is missing or malformed, or its
\* collection fails with an error that is not the rate limit
Skipped(i) == ~RateLimited(i) /\ (NoUsablePlan(i) \/ Failed(i))

\* C16: a repository whose plan is missing or malformed or whose collection
\* fails with an error other than the rate limit has no entry among the
\* collected entries nor in the report and is not counted in
\* repos_with_plan, and the loop goes on with the repository after it.
C16_FailureSkipsOneRepo ==
    /\ pc # "call" => stats.repos_with_plan = Len(entries)
    /\ \A i \in DOMAIN attempted :
          Skipped(i) =>
              /\ \A j \in DOMAIN entries :
                    entries[j].repository # master.repositories[i].repository
              /\ (pc = "return" =>
                    \A j \in DOMAIN output.progress :
                        output.progress[j].repository
                            # master.repositories[i].repository)
              /\ (i = Len(attempted) /\ i < Len(master.repositories) =>
                    /\ pc = "loop"
                    /\ repo_index = i + 1
                    /\ (ENABLED CollectRepoEntry \/ ENABLED CollectRepoNone
                        \/ ENABLED CollectRepoError \/ ENABLED CollectRepoRateLimit))

\* C16 witness: the first repository fails with an error, the second has no
\* plan, and the third is collected and is the only entry of the report.
C16_Witness ==
    /\ pc = "return"
    /\ Len(attempted) = 3
    /\ Failed(1)
    /\ NoUsablePlan(2) /\ ~Failed(2) /\ ~RateLimited(2)
    /\ stats.repos_with_plan = 1
    /\ Len(output.progress) = 1
    /\ output.progress[1].repository = "RepoC"

----------------------------------------------------------------------------
(* Specification of derive_cycle_releases over ledger records with null    *)
(* fields: the call returns or raises                                      *)

\* None where a list is expected
NoneList == <<NoneMilestone>>

\* matching.sort(key=...) raises TypeError when two keys are compared and one
\* of them is None: with two or more elements every key is compared
sort_raises(matching) ==
    /\ Len(matching) >= 2
    /\ \E i \in DOMAIN matching : matching[i].release_date = NoneStr

\* _find_earliest_by_type raises: in the sort, or in the loop over
\* earliest.get("apis", []) when the value is None
_find_earliest_by_type_raises(cycle, release_type) ==
    LET matching == SelectSeq(cycle, LAMBDA r : r.release_type = release_type)
    IN  IF matching = <<>> THEN FALSE
        ELSE IF sort_raises(matching) THEN TRUE
        ELSE earliest_of(matching).apis = NoneList

\* derive_cycle_releases raises when one of its three searches does
derive_cycle_releases_raises(repo, cycle_id, releases) ==
    /\ Truthy(cycle_id)
    /\ LET cycle == SelectSeq(releases,
               LAMBDA r : r.repository = repo /\ r.meta_release = cycle_id)
       IN  \E t \in {"pre-release-alpha", "pre-release-rc", "public-release"} :
               _find_earliest_by_type_raises(cycle, t)

\* ledger records of RepoA in Sync26: r1 is complete, r2 has a null
\* release_date, r3 has a null apis list, r4 is a release candidate with a
\* null release_date
NullFieldReleases ==
    { Release("RepoA", "Sync26", "pre-release-alpha", <<"r","1">>, <<"1">>,
              <<CycleReleaseApi("x", V1)>>),
      Release("RepoA", "Sync26", "pre-release-alpha", <<"r","2">>, NoneStr,
              <<CycleReleaseApi("x", NoneStr)>>),
      Release("RepoA", "Sync26", "pre-release-alpha", <<"r","3">>, <<"2">>,
              NoneList),
      Release("RepoA", "Sync26", "pre-release-rc", <<"r","4">>, NoneStr, <<>>) }

InitTotal ==
    /\ pc = "call"
    /\ StateIdle
    /\ SummaryIdle
    /\ WarningsIdle
    /\ CollectIdle
    /\ repo_name = "RepoA"
    /\ meta_release \in {None, "Sync26"}
    /\ all_releases \in SeqUpTo(NullFieldReleases, MaxReleases)
    /\ planned_apis \in SeqUpTo(ApiNames, MaxApis)
    /\ cycle_releases = EmptyCycleReleases
    /\ raised = FALSE
    /\ permuted_releases = <<>>
    /\ permuted_cycle_releases = EmptyCycleReleases
    /\ RelIdle

\* the call returns its result
DeriveCycleReleasesReturns ==
    /\ pc = "call"
    /\ ~derive_cycle_releases_raises(repo_name, meta_release, all_releases)
    /\ cycle_releases' = derive_cycle_releases(repo_name, meta_release,
                                               all_releases, planned_apis)
    /\ pc' = "return"
    /\ UNCHANGED <<repo_name, meta_release, all_releases, planned_apis>>
    /\ UNCHANGED <<raised, permuted_releases, permuted_cycle_releases>>
    /\ UNCHANGED <<stateVars, summaryVars, warningVars, collectVars, relVars>>

\* the call is left by a TypeError
DeriveCycleReleasesRaises ==
    /\ pc = "call"
    /\ derive_cycle_releases_raises(repo_name, meta_release, all_releases)
    /\ raised' = TRUE
    /\ pc' = "return"
    /\ UNCHANGED <<repo_name, meta_release, all_releases, planned_apis, cycle_releases>>
    /\ UNCHANGED <<permuted_releases, permuted_cycle_releases>>
    /\ UNCHANGED <<stateVars, summaryVars, warningVars, collectVars, relVars>>

NextTotal ==
    \/ DeriveCycleReleasesReturns
    \/ DeriveCycleReleasesRaises

SpecTotal == InitTotal /\ [][NextTotal]_vars

\* C17 as stated: derive_cycle_releases returns for every ledger, whatever
\* fields of its records are null, and never raises.
C17_Original == pc = "return" => ~raised

----------------------------------------------------------------------------
(* The serialized entries of the report                                    *)

\* the entry has a cycle id
HasCycleId(e) == Truthy(e.meta_release)

\* the serialized entries of the written report, one per collected entry
Serialized(j) == output.progress[j]

\* C18 as stated: the serialized entry of an independent repository carries
\* no cycle-release structure at all, and the entry of a repository with a
\* cycle id carries one with m1, m3 and m4.
C18_Original ==
    pc = "return" =>
        \A j \in DOMAIN entries :
            IF HasCycleId(entries[j])
            THEN /\ "cycle_releases" \in DOMAIN Serialized(j)
                 /\ DOMAIN Serialized(j).cycle_releases = {"m1", "m3", "m4"}
            ELSE "cycle_releases" \notin DOMAIN Serialized(j)

\* C18: every serialized entry carries the cycle_releases key; for an
\* independent repository (null cycle id) its value is the empty mapping,
\* with none of m1, m3, m4, and for a repository with a cycle id it is a
\* mapping with exactly m1, m3 and m4, each with its tag, date and API list.
C18_EmptyMappingOrAllThree ==
    pc = "return" =>
        /\ DOMAIN output.progress = DOMAIN entries
        /\ \A j \in DOMAIN entries :
              /\ "cycle_releases" \in DOMAIN Serialized(j)
              /\ IF HasCycleId(entries[j])
                 THEN /\ DOMAIN Serialized(j).cycle_releases = {"m1", "m3", "m4"}
                      /\ \A k \in {"m1", "m3", "m4"} :
                            DOMAIN Serialized(j).cycle_releases[k]
                                = {"release_tag", "release_date", "apis"}
                 ELSE DOMAIN Serialized(j).cycle_releases = {}

\* C18 witness: a report with the entry of an independent repository, whose
\* cycle_releases is the empty mapping, and the entry of a repository of
\* Sync26, whose m3 is the published release candidate r2.
C18_Witness ==
    /\ pc = "return"
    /\ \E j \in DOMAIN entries :
          /\ entries[j].meta_release = None
          /\ entries[j].release_track = "independent"
          /\ "cycle_releases" \in DOMAIN Serialized(j)
          /\ DOMAIN Serialized(j).cycle_releases = {}
    /\ \E j \in DOMAIN entries :
          /\ entries[j].meta_release = "Sync26"
          /\ Serialized(j).cycle_releases.m3.release_tag = T_r2
          /\ Serialized(j).cycle_releases.m4.release_tag = T_r3
          /\ Serialized(j).cycle_releases.m1.release_tag = NoneStr

\* the keys that every serialized entry carries
AlwaysKeys ==
    {"repository", "github_url", "target_release_tag", "target_release_type",
     "apis", "state", "artifacts", "published_context", "cycle_releases"}

\* the nullable fields named as always explicit
NullableKeys ==
    {"meta_release", "release_track", "target_release_tag", "target_release_type"}

ArtifactKeys == {"snapshot_branch", "release_pr", "draft_release", "release_issue"}

ContextKeys == {"latest_public_release", "newest_pre_release"}

\* C19 as stated: every serialized entry carries cycle id, release track,
\* target tag, target type, the four artifact fields and the two
\* published-context fields, null when unset; only the warnings key is
\* omitted, exactly when the warnings list is empty.
C19_Original ==
    pc = "return" =>
        \A j \in DOMAIN entries :
            /\ NullableKeys \subseteq DOMAIN Serialized(j)
            /\ DOMAIN Serialized(j).artifacts = ArtifactKeys
            /\ DOMAIN Serialized(j).published_context = ContextKeys
            /\ ("warnings" \in DOMAIN Serialized(j)) <=> (entries[j].warnings # <<>>)

\* C19: every serialized entry carries target tag, target type, the four
\* artifact fields and the two published-context fields, with the value of
\* the entry, null when unset; release track, cycle id, dependencies and
\* warnings are each written exactly when set and not empty, with the value
\* of the entry, and are omitted otherwise.
C19_ExplicitAndOmitted ==
    pc = "return" =>
        \A j \in DOMAIN entries :
            LET e == entries[j]
                d == Serialized(j)
            IN  /\ AlwaysKeys \subseteq DOMAIN d
                /\ DOMAIN d \subseteq AlwaysKeys \cup
                       {"release_track", "meta_release", "dependencies", "warnings"}
                /\ d.target_release_tag = e.target_release_tag
                /\ d.target_release_type = e.target_release_type
                /\ DOMAIN d.artifacts = ArtifactKeys
                /\ \A k \in ArtifactKeys : d.artifacts[k] = e.artifacts[k]
                /\ DOMAIN d.published_context = ContextKeys
                /\ \A k \in ContextKeys : d.published_context[k] = e.published_context[k]
                /\ ("release_track" \in DOMAIN d) <=> Truthy(e.release_track)
                /\ ("meta_release" \in DOMAIN d) <=> Truthy(e.meta_release)
                /\ ("dependencies" \in DOMAIN d) <=> TruthyDict(e.dependencies)
                /\ ("warnings" \in DOMAIN d) <=> (e.warnings # <<>>)
                /\ Truthy(e.release_track) => d.release_track = e.release_track
                /\ Truthy(e.meta_release) => d.meta_release = e.meta_release
                /\ TruthyDict(e.dependencies) => d.dependencies = e.dependencies
                /\ e.warnings # <<>> => Len(d.warnings) = Len(e.warnings)

\* C19 witness: a report with the entry of a plan whose fields are all unset,
\* serialized with null target tag, target type, artifacts and published
\* context and without release track, cycle id, dependencies and warnings,
\* and an entry that carries all four of them.
C19_Witness ==
    /\ pc = "return"
    /\ \E j \in DOMAIN entries :
          /\ DOMAIN Serialized(j) = AlwaysKeys
          /\ Serialized(j).target_release_tag = NoneStr
          /\ Serialized(j).target_release_type = None
          /\ Serialized(j).artifacts.snapshot_branch = NoneStr
          /\ Serialized(j).published_context.latest_public_release = NoneStr
    /\ \E j \in DOMAIN entries :
          /\ DOMAIN Serialized(j) = AlwaysKeys \cup
                {"release_track", "meta_release", "dependencies", "warnings"}
          /\ Serialized(j).warnings[1].code = "W001"

----------------------------------------------------------------------------
(* Specification of derive_cycle_releases on a ledger and on the same      *)
(* ledger with same-dated candidates reordered                             *)

\* two records are candidates of the same milestone with the same date
SameCandidateClass(r, s) ==
    /\ r.repository = s.repository
    /\ r.meta_release = s.meta_release
    /\ r.release_type = s.release_type
    /\ r.release_date = s.release_date

\* the reorderings of rs that exchange only records of the same repository,
\* cycle, release type and date
SameDatedReorderings(rs) ==
    { [i \in DOMAIN rs |-> rs[p[i]]] :
        p \in { q \in [DOMAIN rs -> DOMAIN rs] :
                  /\ \A i, j \in DOMAIN rs : q[i] = q[j] => i = j
                  /\ \A i \in DOMAIN rs : SameCandidateClass(rs[i], rs[q[i]]) } }

InitPermute ==
    /\ pc = "call"
    /\ StateIdle
    /\ SummaryIdle
    /\ WarningsIdle
    /\ CollectIdle
    /\ repo_name = "RepoA"
    /\ all_releases \in SeqUpTo(LedgerReleases, MaxReleases)
    /\ permuted_releases \in SameDatedReorderings(all_releases)
    /\ meta_release \in CycleIds
    /\ planned_apis \in SeqUpTo(ApiNames, MaxApis)
    /\ cycle_releases = EmptyCycleReleases
    /\ raised = FALSE
    /\ permuted_cycle_releases = EmptyCycleReleases
    /\ RelIdle

\* derive_cycle_releases is called on the ledger and on the reordered ledger
DeriveBoth ==
    /\ pc = "call"
    /\ cycle_releases' = derive_cycle_releases(repo_name, meta_release,
                                               all_releases, planned_apis)
    /\ permuted_cycle_releases' = derive_cycle_releases(repo_name, meta_release,
                                               permuted_releases, planned_apis)
    /\ pc' = "return"
    /\ UNCHANGED <<repo_name, meta_release, all_releases, planned_apis>>
    /\ UNCHANGED <<raised, permuted_releases>>
    /\ UNCHANGED <<stateVars, summaryVars, warningVars, collectVars, relVars>>

NextPermute == DeriveBoth

SpecPermute == InitPermute /\ [][NextPermute]_vars

\* the positions in rs of the candidates of milestone f
CandidatesIn(rs, f) ==
    { i \in DOMAIN rs :
        /\ rs[i].repository = repo_name
        /\ rs[i].meta_release = meta_release
        /\ rs[i].release_type = KindOf[f] }

\* the first, in the order of rs, of the candidates of the smallest date
FirstEarliest(rs, f) ==
    CHOOSE i \in CandidatesIn(rs, f) : \A j \in CandidatesIn(rs, f) :
        \/ StrLess(rs[i].release_date, rs[j].release_date)
        \/ /\ rs[i].release_date = rs[j].release_date
           /\ i <= j

\* the API names of a milestone, in order
ApiNamesOf(m) == [i \in DOMAIN m.apis |-> m.apis[i].api_name]

\* the reordering has exchanged two same-dated candidates that differ
Reordered == permuted_releases # all_releases

\* C20 as stated: reordering same-dated candidates of the same repository,
\* cycle and release type leaves every returned milestone (tag, date,
\* API versions) unchanged.
C20_Original ==
    pc = "return" => permuted_cycle_releases = cycle_releases

\* C20: reordering same-dated candidates leaves unchanged, for every
\* milestone, whether it is there, whether it is achieved, its date and its
\* API names; its tag and API versions are those of the candidate that
\* comes first in the given order among those of the smallest date, so the
\* milestone is unchanged when that candidate is the same record in both
\* orders.
C20_DateStableTagByOrder ==
    (pc = "return" /\ Truthy(meta_release)) =>
        \A f \in Milestones :
            LET a == cycle_releases[f]
                b == permuted_cycle_releases[f]
            IN  /\ a # NoneMilestone
                /\ b # NoneMilestone
                /\ b.release_date = a.release_date
                /\ (b.release_tag = NoneStr) <=> (a.release_tag = NoneStr)
                /\ ApiNamesOf(b) = ApiNamesOf(a)
                /\ CandidatesIn(all_releases, f) # {} =>
                      LET r == all_releases[FirstEarliest(all_releases, f)]
                          s == permuted_releases[FirstEarliest(permuted_releases, f)]
                      IN  /\ a.release_tag = r.release_tag
                          /\ b.release_tag = s.release_tag
                          /\ r.release_date = s.release_date
                          /\ (r = s => b = a)

\* C20 witness: the ledger holds the alphas r2 and r3 of the same date, the
\* reordering exchanges them, and M1 carries r2 for one order and r3 for the
\* other, with the API versions of each.
C20_Witness ==
    /\ pc = "return"
    /\ meta_release = "Sync26"
    /\ Reordered
    /\ planned_apis = <<"x">>
    /\ cycle_releases.m1.release_date = <<"2">>
    /\ permuted_cycle_releases.m1.release_date = <<"2">>
    /\ cycle_releases.m1.release_tag = <<"r","2">>
    /\ permuted_cycle_releases.m1.release_tag = <<"r","3">>
    /\ cycle_releases.m1.apis[1].api_version = V1
    /\ permuted_cycle_releases.m1.apis[1].api_version = NoneStr

----------------------------------------------------------------------------
(* Specification of build_meta_release_summaries on a list of entries and  *)
(* on the same entries in another order                                    *)

\* the orders in which the elements of es can be listed
Reorderings(es) ==
    { [i \in DOMAIN es |-> es[p[i]]] :
        p \in { q \in [DOMAIN es -> DOMAIN es] :
                  \A i, j \in DOMAIN es : q[i] = q[j] => i = j } }

InitSummaryPermute ==
    /\ pc = "call"
    /\ StateIdle
    /\ MilestoneIdle
    /\ WarningsIdle
    /\ CollectIdle
    /\ AuxIdle
    /\ progress_entries \in SeqUpTo(ProgressEntries, MaxEntries)
    /\ permuted_entries \in Reorderings(progress_entries)
    /\ summaries = <<>>
    /\ permuted_summaries = <<>>
    /\ other_release_type = None
    /\ other_state = NOT_PLANNED
    /\ call_log = <<>>

\* build_meta_release_summaries is called on the entries in both orders
BuildBoth ==
    /\ pc = "call"
    /\ summaries' = build_meta_release_summaries(progress_entries)
    /\ permuted_summaries' = build_meta_release_summaries(permuted_entries)
    /\ pc' = "return"
    /\ UNCHANGED <<progress_entries, permuted_entries>>
    /\ UNCHANGED <<other_release_type, other_state, call_log>>
    /\ UNCHANGED <<stateVars, milestoneVars, warningVars, collectVars, auxVars>>

NextSummaryPermute == BuildBoth

SpecSummaryPermute == InitSummaryPermute /\ [][NextSummaryPermute]_vars

Counters == {"total_apis", "m1_achieved", "m3_achieved", "m4_achieved"}

\* C21: for every list of entries and every permutation of it,
\* build_meta_release_summaries gives both the same cycle ids, each with the
\* same total_apis, m1_achieved, m3_achieved and m4_achieved.
C21_OrderIndependent ==
    pc = "return" =>
        /\ DOMAIN permuted_summaries = DOMAIN summaries
        /\ \A c \in DOMAIN summaries : \A k \in Counters :
              permuted_summaries[c][k] = summaries[c][k]

\* C21 witness: three entries, two of which are of Sync26 with different
\* API counts and achieved milestones, are given in another order, and
\* the summary of Sync26 adds both up.
C21_Witness ==
    /\ pc = "return"
    /\ Len(progress_entries) = 3
    /\ permuted_entries[1] = progress_entries[3]
    /\ permuted_entries[3] = progress_entries[1]
    /\ progress_entries[1].meta_release = "Sync26"
    /\ progress_entries[3].meta_release = "Sync26"
    /\ Len(progress_entries[1].apis) # Len(progress_entries[3].apis)
    /\ progress_entries[2].meta_release = "Fall25"
    /\ summaries["Sync26"].total_apis = 3
    /\ summaries["Sync26"].m1_achieved = 1
    /\ permuted_summaries["Sync26"].total_apis = 3
    /\ DOMAIN permuted_summaries = {"Sync26", "Fall25"}

----------------------------------------------------------------------------
(* Specification of derive_state for two release types and the same        *)
(* artifacts                                                               *)

\* branch names and drafts of the pairs: a snapshot of r4.2, one of r4-x and
\* a branch that is no snapshot; a draft named after r4.2 and one with
\* neither name nor tag
PairBranchNames ==
    { SnapshotOf(T_r42, <<"a">>), SnapshotOf(T_r4x, <<"a">>), SnapshotPrefix \o T_r4 }

PairDraftReleases ==
    { [name |-> <<"r","4",".","2"," ","r","c">>, tag_name |-> T_r42],
      [name |-> NoneStr, tag_name |-> NoneStr] }

InitStatePair ==
    /\ pc = "call"
    /\ MilestoneIdle
    /\ SummaryIdle
    /\ WarningsIdle
    /\ CollectIdle
    /\ AuxIdle
    /\ target_release_type \in ReleaseTypes
    /\ other_release_type \in ReleaseTypes
    /\ target_release_tag \in TargetTags
    /\ tag_exists \in BOOLEAN
    /\ snapshot_branches \in SeqUpTo(PairBranchNames, MaxBranches)
    /\ draft_releases \in SeqUpTo(PairDraftReleases, MaxDrafts)
    /\ state = NOT_PLANNED
    /\ other_state = NOT_PLANNED
    /\ snapshot = NoneStr
    /\ permuted_entries = <<>>
    /\ permuted_summaries = <<>>
    /\ call_log = <<>>

\* derive_state is called for both release types with the same artifacts
DeriveBothStates ==
    /\ pc = "call"
    /\ state' = derive_state(target_release_type, target_release_tag, tag_exists,
                             snapshot_branches, draft_releases)
    /\ other_state' = derive_state(other_release_type, target_release_tag,
                                   tag_exists, snapshot_branches, draft_releases)
    /\ pc' = "return"
    /\ UNCHANGED <<target_release_type, target_release_tag, tag_exists,
                   snapshot_branches, draft_releases, snapshot>>
    /\ UNCHANGED <<other_release_type, permuted_entries, permuted_summaries, call_log>>
    /\ UNCHANGED <<milestoneVars, summaryVars, warningVars, collectVars, auxVars>>

NextStatePair == DeriveBothStates

SpecStatePair == InitStatePair /\ [][NextStatePair]_vars

\* C22 as stated: two release types that are both neither null/absent nor
\* "none" give the same state for the same tag, tag_exists, branches and
\* drafts.
C22_Original ==
    (/\ pc = "return"
     /\ target_release_type \notin {None, "none"}
     /\ other_release_type \notin {None, "none"})
        => other_state = state

\* C22: two release types that are both neither null/absent, nor the empty
\* string, nor "none" give the same state for the same tag, tag_exists,
\* branches and drafts.
C22_SameLadder ==
    (/\ pc = "return"
     /\ target_release_type \notin {None, "", "none"}
     /\ other_release_type \notin {None, "", "none"})
        => other_state = state

\* C22 witness: a release candidate and a public release with the same tag,
\* matching snapshot and matching draft are both DRAFT_READY.
C22_Witness ==
    /\ pc = "return"
    /\ target_release_type = "pre-release-rc"
    /\ other_release_type = "public-release"
    /\ ~tag_exists
    /\ target_release_tag = T_r42
    /\ Len(snapshot_branches) = 2
    /\ state = DRAFT_READY
    /\ other_state = DRAFT_READY

----------------------------------------------------------------------------
(* Specification of collect_repo_progress for one repository               *)

\* the branches of the repository: main, a snapshot of r2 and one of r3
RepoBranchNames == { Main, SnapshotOf(T_r2, <<"a">>), SnapshotOf(T_r3, <<"a">>) }

\* the releases GitHub lists: a draft of r2 and a published release of r2
RepoReleases ==
    { [name |-> NoneStr, tag_name |-> T_r2, html_url |-> "u2", draft |-> TRUE],
      [name |-> T_r2, tag_name |-> T_r2, html_url |-> "u1", draft |-> FALSE] }

\* the pull requests: none, or one into the snapshot of r2
RepoPullRequests ==
    { <<>>,
      <<[base |-> SnapshotOf(T_r2, <<"a">>), number |-> 42,
         state |-> "open", html_url |-> "u3"]>> }

\* the open release issues: none or one
RepoIssues == { <<>>, <<[number |-> 7, html_url |-> "u4"]>> }

\* the plans: the release type is null, empty, "none" or a release
\* candidate, the target tag is null, r2 or r3
RepoPlans ==
    { Plan("meta-release", "Sync26", tag, type, NoneMilestone,
           <<ApiEntry("x", V2, "rc", <<>>)>>) :
        tag \in {NoneStr, T_r2, T_r3},
        type \in {None, "", "none", "pre-release-rc"} }

\* what GitHub holds for the repository
RepoAnswers ==
    { Remote("missing", NoPlan, {}, <<Main>>, <<>>, <<>>, <<>>) }
    \cup
    { Remote("plan", plan, tags, branches, releases, prs, issues) :
        plan \in RepoPlans,
        tags \in { {}, {T_r2} },
        branches \in SeqUpTo(RepoBranchNames, MaxBranches),
        releases \in SeqUpTo(RepoReleases, MaxDrafts),
        prs \in RepoPullRequests,
        issues \in RepoIssues }

InitRepo ==
    /\ pc = "call"
    /\ StateIdle
    /\ MilestoneIdle
    /\ SummaryIdle
    /\ master = [repositories |-> SubSeq(LedgerRepos, 1, 1),
                 releases |-> MasterReleases]
    /\ \E r \in RepoAnswers : \E f \in Failures :
          /\ f.fail_at <= calls_needed(r)
          /\ remote = <<[repo |-> r, fail_at |-> f.fail_at, fail_kind |-> f.fail_kind]>>
    /\ entry = NoneMilestone
    /\ raised = FALSE
    /\ api_calls = 0
    /\ call_log = <<>>
    /\ repo_releases = <<>>
    /\ CHECKS = <<>>
    /\ warnings = <<>>
    /\ check_index = 0
    /\ invoked = <<>>
    /\ repo_index = 0
    /\ entries = <<>>
    /\ stats = NoneMilestone
    /\ attempted = <<>>
    /\ output = NoneMilestone
    /\ permuted_releases = <<>>
    /\ permuted_cycle_releases = EmptyCycleReleases
    /\ permuted_entries = <<>>
    /\ permuted_summaries = <<>>
    /\ other_release_type = None
    /\ other_state = NOT_PLANNED

\* the operations called up to and including the one that fails, if any
calls_issued(r, fail_at) ==
    IF fail_at \in 1..Len(calls_made(r)) THEN SubSeq(calls_made(r), 1, fail_at)
    ELSE calls_made(r)

\* collect_repo_progress returns an entry or None
CollectRepoProgressReturns ==
    /\ pc = "call"
    /\ ResultOf(1).outcome \in {"entry", "none"}
    /\ entry' = ResultOf(1).entry
    /\ api_calls' = api_calls + ResultOf(1).calls
    /\ call_log' = calls_issued(remote[1].repo, remote[1].fail_at)
    /\ pc' = "return"
    /\ UNCHANGED <<master, remote, raised>>
    /\ UNCHANGED <<repo_releases, CHECKS, warnings, check_index, invoked>>
    /\ UNCHANGED <<repo_index, entries, stats, attempted, output>>
    /\ UNCHANGED <<permuted_releases, permuted_cycle_releases, permuted_entries,
                   permuted_summaries, other_release_type, other_state>>
    /\ UNCHANGED <<stateVars, milestoneVars, summaryVars>>

\* collect_repo_progress is left by the exception of a remote call
CollectRepoProgressRaises ==
    /\ pc = "call"
    /\ ResultOf(1).outcome \in {"error", "rate_limit"}
    /\ raised' = TRUE
    /\ api_calls' = api_calls + ResultOf(1).calls
    /\ call_log' = calls_issued(remote[1].repo, remote[1].fail_at)
    /\ pc' = "return"
    /\ UNCHANGED <<master, remote, entry>>
    /\ UNCHANGED <<repo_releases, CHECKS, warnings, check_index, invoked>>
    /\ UNCHANGED <<repo_index, entries, stats, attempted, output>>
    /\ UNCHANGED <<permuted_releases, permuted_cycle_releases, permuted_entries,
                   permuted_summaries, other_release_type, other_state>>
    /\ UNCHANGED <<stateVars, milestoneVars, summaryVars>>

NextRepo ==
    \/ CollectRepoProgressReturns
    \/ CollectRepoProgressRaises

SpecRepo == InitRepo /\ [][NextRepo]_vars

\* the repository has a plan whose release type is "none" or null
DeclaresNoRelease ==
    /\ remote[1].repo.file = "plan"
    /\ remote[1].repo.plan.target_release_type \in {None, "none"}

\* C23: for a repository whose plan declares the release type "none" or
\* none at all, collect_repo_progress calls get_file_content and then
\* list_branches once and nothing else: never tag_exists,
\* get_draft_releases, find_release_issue or find_release_pr; the entry it
\* returns has its milestones and warnings computed with these two calls.
C23_TwoCallsWhenNotPlanned ==
    (pc = "return" /\ DeclaresNoRelease) =>
        /\ call_log = <<"get_file_content", "list_branches">>
        /\ \A i \in DOMAIN call_log :
              call_log[i] \notin {"tag_exists", "get_draft_releases",
                                  "find_release_issue", "find_release_pr"}
        /\ ~raised =>
              /\ entry # NoneMilestone
              /\ api_calls = 2
              /\ entry.state = NOT_PLANNED
              /\ DOMAIN entry.cycle_releases = {"m1", "m3", "m4"}
              /\ entry.cycle_releases.m1 # NoneMilestone
              /\ entry.warnings = generate_warnings(BuiltinChecks,
                     [entry EXCEPT !.warnings = <<>>], MasterReleases)

\* C23 witness: the plan declares "none" for r2 while the repository holds
\* the tag r2, a snapshot of r2, a draft, a pull request and a release
\* issue: two calls are made, the milestones carry the ledger's r2 and r3
\* and the left-over snapshot is reported.
C23_Witness ==
    /\ pc = "return"
    /\ DeclaresNoRelease
    /\ ~raised
    /\ remote[1].repo.plan.target_release_type = "none"
    /\ remote[1].repo.plan.target_release_tag = T_r2
    /\ remote[1].repo.tags = {T_r2}
    /\ remote[1].repo.releases # <<>>
    /\ remote[1].repo.prs # <<>>
    /\ remote[1].repo.issues # <<>>
    /\ api_calls = 2
    /\ call_log = <<"get_file_content", "list_branches">>
    /\ entry.cycle_releases.m3.release_tag = T_r2
    /\ Len(entry.warnings) = 1
    /\ entry.warnings[1].code = "W002"

----------------------------------------------------------------------------
(* Specification of the two core calls on in-memory values, with what they *)
(* leave of their arguments: derive_cycle_releases, then generate_warnings *)
(* on the entry that carries its result                                    *)

\* Variant: the ledger itself is sorted by date
all_releases_sorted_in_place(repo, cycle_id, releases) ==
    IF Truthy(cycle_id) THEN sort_by_date(releases, 1, <<>>) ELSE releases

\* all_releases after derive_cycle_releases: the function filters it into
\* new lists and sorts those, the argument is only read
all_releases_after(repo, cycle_id, releases) == releases

\* planned_apis after derive_cycle_releases: it is only enumerated
planned_apis_after(planned) == planned

\* the entry after generate_warnings: the checks read its fields and build
\* ProgressWarning objects, none assigns to it
entry_after(checks, e, releases) == e

\* repo_releases after generate_warnings: the checks only read it
repo_releases_after(checks, e, releases) == releases

\* ledger records of RepoA in Sync26, not in date order: the alpha r1 is
\* dated "2", the alpha r2 "10", the public release r3 "3" with x at 1
FrameReleases ==
    { Release("RepoA", "Sync26", "pre-release-alpha", <<"r","1">>, <<"2">>,
              <<CycleReleaseApi("x", V1)>>),
      Release("RepoA", "Sync26", "pre-release-alpha", T_r2, <<"1","0">>,
              <<CycleReleaseApi("x", V1)>>),
      Release("RepoA", "Sync26", "public-release", T_r3, <<"3">>,
              <<CycleReleaseApi("x", V1)>>) }

\* the entry before its milestones are derived: it targets r3 with every
\* planned API at version 2
FrameEntry(st, cycle_id, planned, branch) ==
    ProgressEntry("RepoA", "github.com/camaraproject/RepoA",
        "meta-release", cycle_id, T_r3,
        IF st = NOT_PLANNED THEN "none" ELSE "public-release",
        NoneMilestone,
        [i \in DOMAIN planned |-> ApiEntry(planned[i], V2, "public", <<>>)],
        st,
        ArtifactInfo(branch, NoneMilestone, NoneMilestone, NoneMilestone),
        PublishedContext(NoneStr, NoneStr), EmptyCycleReleases, <<>>)

InitFrame ==
    /\ pc = "call"
    /\ StateIdle
    /\ SummaryIdle
    /\ CollectIdle
    /\ AuxIdle
    /\ RelIdle
    /\ repo_name = "RepoA"
    /\ meta_release \in {None, "Sync26"}
    /\ all_releases \in SeqUpTo(FrameReleases, MaxReleases)
    /\ planned_apis \in SeqUpTo(ApiNames, MaxApis)
    /\ cycle_releases = EmptyCycleReleases
    /\ \E st \in {NOT_PLANNED, PLANNED, PUBLISHED},
          branch \in {NoneStr, SnapshotOf(T_r3, <<"a">>)} :
          entry = FrameEntry(st, meta_release, planned_apis, branch)
    /\ repo_releases = <<>>
    /\ CHECKS = BuiltinChecks
    /\ warnings = <<>>
    /\ check_index = 0
    /\ invoked = <<>>

\* entry.cycle_releases = derive_cycle_releases(...); repo_releases = [...]
DeriveCycleReleasesCall ==
    /\ pc = "call"
    /\ cycle_releases' = derive_cycle_releases(repo_name, meta_release,
                                               all_releases, planned_apis)
    /\ all_releases' = all_releases_after(repo_name, meta_release, all_releases)
    /\ planned_apis' = planned_apis_after(planned_apis)
    /\ entry' = [entry EXCEPT !.cycle_releases = cycle_releases']
    /\ repo_releases' = releases_of(all_releases', repo_name)
    /\ pc' = "loop"
    /\ UNCHANGED <<repo_name, meta_release, CHECKS, warnings, check_index, invoked>>
    /\ UNCHANGED <<stateVars, summaryVars, collectVars, auxVars, relVars>>

\* generate_warnings(entry, repo_releases)
GenerateWarningsCall ==
    /\ pc = "loop"
    /\ warnings' = generate_warnings(CHECKS, entry, repo_releases)
    /\ entry' = entry_after(CHECKS, entry, repo_releases)
    /\ repo_releases' = repo_releases_after(CHECKS, entry, repo_releases)
    /\ invoked' = CHECKS
    /\ check_index' = Len(CHECKS) + 1
    /\ pc' = "return"
    /\ UNCHANGED <<CHECKS, milestoneVars>>
    /\ UNCHANGED <<stateVars, summaryVars, collectVars, auxVars, relVars>>

NextFrame ==
    \/ DeriveCycleReleasesCall
    \/ GenerateWarningsCall

SpecFrame == InitFrame /\ [][NextFrame]_vars

----------------------------------------------------------------------------
(* C25: the meta_releases list of the report *)

\* the cycle ids of the collected entries, without the values in Unset
CycleIdsExcept(Unset) ==
    { entries[i].meta_release : i \in DOMAIN entries } \ Unset

\* the report lists exactly the cycles of Ids, once each, in increasing
\* order of name
ListsExactly(Ids) ==
    LET ms == output.meta_releases
    IN  /\ Len(ms) = Cardinality(Ids)
        /\ { ms[i].name : i \in DOMAIN ms } = Ids
        /\ \A i, j \in DOMAIN ms :
              i < j => StrLess(NameChars(ms[i].name), NameChars(ms[j].name))

\* C25 as stated: the report's meta_releases holds exactly one summary per
\* distinct cycle id that is not null among the collected entries, in
\* increasing order of name. Violated: an entry whose cycle id is the empty
\* string gets no summary.
C25_Original ==
    pc = "return" => ListsExactly(CycleIdsExcept({None}))

\* C25 (amended): the report's meta_releases holds exactly one summary per
\* distinct cycle id that is neither null nor the empty string among the
\* collected entries, in increasing order of cycle name; the list is a
\* function of the set of cycle ids, so the order of the repositories in the
\* ledger does not matter.
C25_OnePerCycleSorted ==
    pc = "return" => ListsExactly(CycleIdsExcept({None, ""}))

\* C25 witness: a report whose entries come in the order Sync26, Fall25 and
\* an entry without cycle, and whose summaries are Fall25 then Sync26
C25_Witness ==
    /\ pc = "return"
    /\ Len(entries) = 3
    /\ entries[1].meta_release = "Sync26"
    /\ entries[2].meta_release = "Fall25"
    /\ entries[3].meta_release = ""
    /\ Len(output.meta_releases) = 2
    /\ output.meta_releases[1].name = "Fall25"
    /\ output.meta_releases[2].name = "Sync26"
----------------------------------------------------------------------------
(* C26: the first rule of the derive_state docstring *)

\* C26: derive_state returns NOT_PLANNED when target_release_type is "none"
\* or when the target tag is missing (null), whatever the other inputs are.
\* Violated: a planned type with a null tag yields PLANNED, or PUBLISHED when
\* tag_exists is true; the function tests only the type before the artifacts.
C26_Original ==
    (pc = "return" /\ (target_release_type = "none" \/ target_release_tag = NoneStr))
        => state = NOT_PLANNED
----------------------------------------------------------------------------
(* C27: the left-over snapshot of a repository that plans no release *)

\* the branch listing under release-snapshot/
SnapshotListing == list_branches(remote[1].repo, SnapshotPrefix)

\* the listed branches made for the declared target tag
BranchesOfTargetTag ==
    LET tag == remote[1].repo.plan.target_release_tag
    IN  IF tag \in {NoneStr, <<>>} THEN {}
        ELSE { i \in DOMAIN SnapshotListing :
                 StartsWith(SnapshotListing[i], SnapshotPrefix \o tag \o <<"-">>) }

HasW002(e) == \E i \in DOMAIN e.warnings : e.warnings[i].code = "W002"

\* a call for a repository that declares no release has returned its entry
NoReleaseEntryReturned ==
    /\ pc = "return"
    /\ ~raised
    /\ DeclaresNoRelease
    /\ entry # NoneMilestone

\* C27 as stated: for a declaration with release type "none" or none, the
\* entry carries a W002 whenever the branch listing under release-snapshot/
\* is not empty. Violated: a listing that holds only the snapshot of another
\* tag, or any listing when the declaration has no target tag, gives no W002.
C27_Original ==
    (NoReleaseEntryReturned /\ SnapshotListing # <<>>) => HasW002(entry)

\* C27 (amended): for a declaration with release type "none" or none, the
\* entry carries a W002 exactly when the declaration has a target tag and
\* some branch of the listing starts with release-snapshot/{target tag}-;
\* the entry's snapshot branch is then the first such branch, and is null
\* otherwise.
C27_W002IffBranchOfTargetTag ==
    NoReleaseEntryReturned =>
        /\ HasW002(entry) <=> BranchesOfTargetTag # {}
        /\ BranchesOfTargetTag # {} =>
              \E i \in BranchesOfTargetTag :
                  /\ entry.artifacts.snapshot_branch = SnapshotListing[i]
                  /\ \A j \in BranchesOfTargetTag : i <= j
        /\ BranchesOfTargetTag = {} => entry.artifacts.snapshot_branch = NoneStr

\* C27 witness: the declaration is "none" for r3 and the listing holds the
\* snapshot of r2 and then the snapshot of r3: W002 reports the second branch
C27_Witness ==
    /\ NoReleaseEntryReturned
    /\ remote[1].repo.plan.target_release_type = "none"
    /\ remote[1].repo.plan.target_release_tag = T_r3
    /\ SnapshotListing = <<SnapshotOf(T_r2, <<"a">>), SnapshotOf(T_r3, <<"a">>)>>
    /\ HasW002(entry)
    /\ entry.artifacts.snapshot_branch = SnapshotOf(T_r3, <<"a">>)
----------------------------------------------------------------------------
(* C28: the artifact summary and the derived state of an entry *)

\* C28: in every entry returned by collect_repo_progress, DRAFT_READY implies
\* that snapshot_branch and draft_release are both set, SNAPSHOT_ACTIVE that
\* snapshot_branch is set and draft_release is null, PLANNED that
\* snapshot_branch and release_pr are null, and release_pr is set only if
\* snapshot_branch is set.
C28_ArtifactsAgreeWithState ==
    (pc = "return" /\ ~raised /\ entry # NoneMilestone) =>
        /\ entry.state = DRAFT_READY =>
              /\ entry.artifacts.snapshot_branch # NoneStr
              /\ entry.artifacts.draft_release # NoneMilestone
        /\ entry.state = SNAPSHOT_ACTIVE =>
              /\ entry.artifacts.snapshot_branch # NoneStr
              /\ entry.artifacts.draft_release = NoneMilestone
        /\ entry.state = PLANNED =>
              /\ entry.artifacts.snapshot_branch = NoneStr
              /\ entry.artifacts.release_pr = NoneMilestone
        /\ entry.artifacts.release_pr # NoneMilestone =>
              entry.artifacts.snapshot_branch # NoneStr

\* C28 witness: a release candidate r2 with its snapshot, a pull request
\* into it and a draft of r2 is DRAFT_READY with the three artifacts set
C28_Witness ==
    /\ pc = "return"
    /\ ~raised
    /\ entry # NoneMilestone
    /\ entry.state = DRAFT_READY
    /\ entry.artifacts.snapshot_branch = SnapshotOf(T_r2, <<"a">>)
    /\ entry.artifacts.release_pr # NoneMilestone
    /\ entry.artifacts.draft_release # NoneMilestone
----------------------------------------------------------------------------
(* C29: the run statistics and the order of the entries *)

\* the entries are those of ledger rows taken in increasing order, one row
\* per entry
InLedgerOrder ==
    \E f \in [DOMAIN entries -> DOMAIN master.repositories] :
        /\ \A i, j \in DOMAIN entries : i < j => f[i] < f[j]
        /\ \A i \in DOMAIN entries :
              /\ ResultOf(f[i]).outcome = "entry"
              /\ entries[i] = ResultOf(f[i]).entry
              /\ entries[i].repository = master.repositories[f[i]].repository

\* the entries whose state is not NOT_PLANNED
PlannedEntries == { i \in DOMAIN entries : entries[i].state # NOT_PLANNED }

\* C29: when collect_all has finished, on every path, repos_with_plan is the
\* number of entries of the report, repos_planned is the number of those whose
\* state is not NOT_PLANNED, repos_planned <= repos_with_plan <= repos_scanned,
\* and the entries are in ledger order with at most one entry per ledger row.
C29_StatsAgreeWithEntries ==
    pc = "return" =>
        LET st == output.metadata.collection_stats
        IN  /\ Len(output.progress) = Len(entries)
            /\ st.repos_with_plan = Len(output.progress)
            /\ st.repos_planned = Cardinality(PlannedEntries)
            /\ st.repos_planned <= st.repos_with_plan
            /\ st.repos_with_plan <= st.repos_scanned
            /\ st.repos_scanned = Len(master.repositories)
            /\ InLedgerOrder
            /\ \A i \in DOMAIN entries :
                  output.progress[i].repository = entries[i].repository

\* C29 witness: of three repositories the first is collected with a
\* published release, the second fails with an error and the third plans no
\* release: three scanned, two with a plan, one planned
C29_Witness ==
    /\ pc = "return"
    /\ Len(attempted) = 3
    /\ Failed(2)
    /\ Len(entries) = 2
    /\ entries[1].repository = "RepoA"
    /\ entries[1].state = PUBLISHED
    /\ entries[2].repository = "RepoC"
    /\ entries[2].state = NOT_PLANNED
    /\ output.metadata.collection_stats.repos_scanned = 3
    /\ output.metadata.collection_stats.repos_with_plan = 2
    /\ output.metadata.collection_stats.repos_planned = 1
----------------------------------------------------------------------------
(* C30: the warnings of the built-in registry *)

\* C30: with the built-in registry (divergence check, then orphan check)
\* generate_warnings returns at most one warning: a W001 only for a PUBLISHED
\* entry and a W002 only for a NOT_PLANNED entry, never both, and none for an
\* entry that is PLANNED, SNAPSHOT_ACTIVE or DRAFT_READY.
C30_AtMostOneWarning ==
    (pc = "return" /\ CHECKS = BuiltinChecks) =>
        /\ Len(warnings) <= 1
        /\ \A k \in DOMAIN warnings : warnings[k].code \in {"W001", "W002"}
        /\ HasCode(warnings, "W001") => entry.state = PUBLISHED
        /\ HasCode(warnings, "W002") => entry.state = NOT_PLANNED
        /\ ~(HasCode(warnings, "W001") /\ HasCode(warnings, "W002"))
        /\ entry.state \in {PLANNED, SNAPSHOT_ACTIVE, DRAFT_READY} => warnings = <<>>

\* C30 witness: a PUBLISHED entry that diverges from its release and still
\* has a snapshot branch gets the W001 alone
C30_Witness ==
    /\ pc = "return"
    /\ CHECKS = BuiltinChecks
    /\ invoked = BuiltinChecks
    /\ entry.state = PUBLISHED
    /\ entry.artifacts.snapshot_branch # NoneStr
    /\ Len(warnings) = 1
    /\ warnings[1].code = "W001"

=============================================================================
